---- MODULE Spec2Model ----
(***************************************************************************)
(* Console-Kit: the Spinner and Progress components (one periodic render   *)
(* timer each, driven by the Node.js event loop) and the color/style       *)
(* encoder they call.                                                      *)
(*                                                                         *)
(* JavaScript values are records tagged with their type (field t), so that *)
(* `??`, truthiness, typeof and Number.isFinite are computed as the        *)
(* language computes them.  Strings that the code inspects character by    *)
(* character (color specifications) are sequences of one-character         *)
(* strings; every string written to the terminal is a sequence of tokens   *)
(* and a template literal is the concatenation of its parts.               *)
(***************************************************************************)
EXTENDS Integers, Sequences, FiniteSets, TLC

VARIABLES
    objs,        \* instance id -> the instance (its private fields), or NoObject
    timers,      \* instance id -> the interval handles registered by it and not cleared
    microtasks,  \* FIFO of the continuations suspended at `await this.stop()`
    written,     \* the process.stdout.write calls completed by the call in progress, in order
    warned,      \* the console.warn calls made by the call in progress
    last         \* the call in progress: operation, instance, argument, outcome (result)

vars == <<objs, timers, microtasks, written, warned, last>>

(***************************************************************************)
(* Bounds of the model.                                                    *)
(***************************************************************************)
\* frames a spinner may render (frameIndex is an unbounded counter in the code)
MaxFrameIndex == 3
\* continuations that may be pending at one time
MaxPending == 1
\* largest magnitude of a finite number; a sum beyond it overflows to an infinity
MaxNum == 3
\* largest total of the progress bars whose rendering is examined on its own
MaxTotal == 8

Ids == {1}

(***************************************************************************)
(* JavaScript values.                                                      *)
(***************************************************************************)
Undefined == [t |-> "undefined"]
Null == [t |-> "null"]
Str(s) == [t |-> "string", s |-> s]
Bool(b) == [t |-> "boolean", b |-> b]
Arr(a) == [t |-> "array", a |-> a]
Num(n) == [t |-> "number", k |-> "fin", n |-> n]
\* a finite number that is not an integer: its floor, and whether its
\* fractional part is at least one half
Frac(floor, half) == [t |-> "number", k |-> "frac", n |-> floor, half |-> half]
NaN == [t |-> "number", k |-> "nan", n |-> 0]
PosInf == [t |-> "number", k |-> "inf", n |-> 1]
NegInf == [t |-> "number", k |-> "inf", n |-> -1]

\* x ?? y
Nullish(v) == v.t \in {"undefined", "null"}
\* v || d in the place of v ?? d: every falsy value takes the default
OrDefault(v, d) == IF v.t \in {"undefined", "null"} \/ v = [t |-> "boolean", b |-> FALSE]
                   THEN d ELSE v

Coalesce(v, d) == IF Nullish(v) THEN d ELSE v

\* ToBoolean, for the types the components test
Truthy(v) ==
    CASE v.t = "undefined" -> FALSE
      [] v.t = "null" -> FALSE
      [] v.t = "string" -> v.s # ""
      [] v.t = "boolean" -> v.b
      [] v.t = "number" -> v.k \in {"inf", "frac"} \/ (v.k = "fin" /\ v.n # 0)
      [] OTHER -> TRUE

NumberIsFinite(v) == v.t = "number" /\ v.k \in {"fin", "frac"}

\* a < b and a > b on numbers: false as soon as one side is NaN
NumLt(a, b) ==
    CASE a.k = "nan" \/ b.k = "nan" -> FALSE
      [] a.k = "fin" /\ b.k = "fin" -> a.n < b.n
      [] a.k = "inf" /\ b.k = "inf" -> a.n < b.n
      [] a.k = "inf" -> a.n < 0
      [] OTHER -> b.n > 0
NumGt(a, b) == NumLt(b, a)
NumLe(a, b) == a.k # "nan" /\ b.k # "nan" /\ ~NumLt(b, a)

\* Math.min, Math.max: NaN if either argument is NaN
MathMin(a, b) ==
    IF a.k = "nan" \/ b.k = "nan" THEN NaN ELSE IF NumLt(b, a) THEN b ELSE a
MathMax(a, b) ==
    IF a.k = "nan" \/ b.k = "nan" THEN NaN ELSE IF NumLt(a, b) THEN b ELSE a

\* a + b on numbers; a finite sum out of range overflows to an infinity
NumAdd(a, b) ==
    CASE a.k = "nan" \/ b.k = "nan" -> NaN
      [] a.k = "inf" /\ b.k = "inf" -> IF a.n = b.n THEN a ELSE NaN
      [] a.k = "inf" -> a
      [] b.k = "inf" -> b
      [] OTHER ->
           LET s == a.n + b.n
           IN IF s > MaxNum THEN PosInf ELSE IF s < -MaxNum THEN NegInf ELSE Num(s)

(***************************************************************************)
(* utils/Colors: the color/style encoder.  A color specification is a      *)
(* sequence of characters; a result is a sequence of tokens ("" is <<>>).  *)
(***************************************************************************)
NAMED_COLORS ==
    << [name |-> <<"b", "l", "a", "c", "k">>, code |-> <<"ESC[30m">>],
       [name |-> <<"b", "l", "u", "e">>, code |-> <<"ESC[34m">>],
       [name |-> <<"b", "r", "o", "w", "n">>, code |-> <<"ESC[38;5;130m">>],
       [name |-> <<"c", "y", "a", "n">>, code |-> <<"ESC[36m">>],
       [name |-> <<"g", "o", "l", "d">>, code |-> <<"ESC[38;5;220m">>],
       [name |-> <<"g", "r", "a", "y">>, code |-> <<"ESC[38;5;240m">>],
       [name |-> <<"g", "r", "e", "e", "n">>, code |-> <<"ESC[32m">>],
       [name |-> <<"i", "n", "d", "i", "g", "o">>, code |-> <<"ESC[38;5;63m">>],
       [name |-> <<"l", "i", "m", "e">>, code |-> <<"ESC[38;5;154m">>],
       [name |-> <<"m", "a", "g", "e", "n", "t", "a">>, code |-> <<"ESC[35m">>],
       [name |-> <<"o", "r", "a", "n", "g", "e">>, code |-> <<"ESC[38;5;208m">>],
       [name |-> <<"p", "i", "n", "k">>, code |-> <<"ESC[38;5;213m">>],
       [name |-> <<"p", "u", "r", "p", "l", "e">>, code |-> <<"ESC[38;5;99m">>],
       [name |-> <<"r", "e", "d">>, code |-> <<"ESC[31m">>],
       [name |-> <<"t", "e", "a", "l">>, code |-> <<"ESC[38;5;51m">>],
       [name |-> <<"w", "h", "i", "t", "e">>, code |-> <<"ESC[38;5;255m">>],
       [name |-> <<"y", "e", "l", "l", "o", "w">>, code |-> <<"ESC[33m">>],
       [name |-> <<"b", "r", "i", "g", "h", "t", "B", "l", "a", "c", "k">>, code |-> <<"ESC[38;5;232m">>],
       [name |-> <<"b", "r", "i", "g", "h", "t", "B", "l", "u", "e">>, code |-> <<"ESC[94m">>],
       [name |-> <<"b", "r", "i", "g", "h", "t", "C", "y", "a", "n">>, code |-> <<"ESC[96m">>],
       [name |-> <<"b", "r", "i", "g", "h", "t", "G", "r", "e", "e", "n">>, code |-> <<"ESC[92m">>],
       [name |-> <<"b", "r", "i", "g", "h", "t", "M", "a", "g", "e", "n", "t", "a">>, code |-> <<"ESC[95m">>],
       [name |-> <<"b", "r", "i", "g", "h", "t", "R", "e", "d">>, code |-> <<"ESC[91m">>],
       [name |-> <<"b", "r", "i", "g", "h", "t", "W", "h", "i", "t", "e">>, code |-> <<"ESC[97m">>],
       [name |-> <<"b", "r", "i", "g", "h", "t", "Y", "e", "l", "l", "o", "w">>, code |-> <<"ESC[93m">>] >>

\* a background table that lacks the last name of the foreground table
BackgroundTableShort == SubSeq(NAMED_COLORS, 1, Len(NAMED_COLORS) - 1)

NAMED_BACKGROUND_COLORS ==
    << [name |-> <<"b", "l", "a", "c", "k">>, code |-> <<"ESC[40m">>],
       [name |-> <<"b", "l", "u", "e">>, code |-> <<"ESC[44m">>],
       [name |-> <<"b", "r", "o", "w", "n">>, code |-> <<"ESC[48;5;130m">>],
       [name |-> <<"c", "y", "a", "n">>, code |-> <<"ESC[46m">>],
       [name |-> <<"g", "o", "l", "d">>, code |-> <<"ESC[48;5;220m">>],
       [name |-> <<"g", "r", "a", "y">>, code |-> <<"ESC[48;5;240m">>],
       [name |-> <<"g", "r", "e", "e", "n">>, code |-> <<"ESC[42m">>],
       [name |-> <<"i", "n", "d", "i", "g", "o">>, code |-> <<"ESC[48;5;63m">>],
       [name |-> <<"l", "i", "m", "e">>, code |-> <<"ESC[48;5;154m">>],
       [name |-> <<"m", "a", "g", "e", "n", "t", "a">>, code |-> <<"ESC[45m">>],
       [name |-> <<"o", "r", "a", "n", "g", "e">>, code |-> <<"ESC[48;5;208m">>],
       [name |-> <<"p", "i", "n", "k">>, code |-> <<"ESC[48;5;213m">>],
       [name |-> <<"p", "u", "r", "p", "l", "e">>, code |-> <<"ESC[48;5;99m">>],
       [name |-> <<"r", "e", "d">>, code |-> <<"ESC[41m">>],
       [name |-> <<"t", "e", "a", "l">>, code |-> <<"ESC[48;5;51m">>],
       [name |-> <<"w", "h", "i", "t", "e">>, code |-> <<"ESC[47m">>],
       [name |-> <<"y", "e", "l", "l", "o", "w">>, code |-> <<"ESC[43m">>],
       [name |-> <<"b", "r", "i", "g", "h", "t", "B", "l", "a", "c", "k">>, code |-> <<"ESC[48;5;232m">>],
       [name |-> <<"b", "r", "i", "g", "h", "t", "B", "l", "u", "e">>, code |-> <<"ESC[104m">>],
       [name |-> <<"b", "r", "i", "g", "h", "t", "C", "y", "a", "n">>, code |-> <<"ESC[106m">>],
       [name |-> <<"b", "r", "i", "g", "h", "t", "G", "r", "e", "e", "n">>, code |-> <<"ESC[102m">>],
       [name |-> <<"b", "r", "i", "g", "h", "t", "M", "a", "g", "e", "n", "t", "a">>, code |-> <<"ESC[105m">>],
       [name |-> <<"b", "r", "i", "g", "h", "t", "R", "e", "d">>, code |-> <<"ESC[101m">>],
       [name |-> <<"b", "r", "i", "g", "h", "t", "W", "h", "i", "t", "e">>, code |-> <<"ESC[107m">>],
       [name |-> <<"b", "r", "i", "g", "h", "t", "Y", "e", "l", "l", "o", "w">>, code |-> <<"ESC[103m">>] >>

ObjectPrototypeKeys ==
    { <<"c", "o", "n", "s", "t", "r", "u", "c", "t", "o", "r">>,
      <<"_", "_", "d", "e", "f", "i", "n", "e", "G", "e", "t", "t", "e", "r", "_", "_">>,
      <<"_", "_", "d", "e", "f", "i", "n", "e", "S", "e", "t", "t", "e", "r", "_", "_">>,
      <<"h", "a", "s", "O", "w", "n", "P", "r", "o", "p", "e", "r", "t", "y">>,
      <<"_", "_", "l", "o", "o", "k", "u", "p", "G", "e", "t", "t", "e", "r", "_", "_">>,
      <<"_", "_", "l", "o", "o", "k", "u", "p", "S", "e", "t", "t", "e", "r", "_", "_">>,
      <<"i", "s", "P", "r", "o", "t", "o", "t", "y", "p", "e", "O", "f">>,
      <<"p", "r", "o", "p", "e", "r", "t", "y", "I", "s", "E", "n", "u", "m", "e", "r", "a", "b", "l", "e">>,
      <<"t", "o", "S", "t", "r", "i", "n", "g">>,
      <<"v", "a", "l", "u", "e", "O", "f">>,
      <<"_", "_", "p", "r", "o", "t", "o", "_", "_">>,
      <<"t", "o", "L", "o", "c", "a", "l", "e", "S", "t", "r", "i", "n", "g">> }

\* what an object literal answers for a key it inherits from Object.prototype
InheritedMember == <<"[Object.prototype member]">>

\* table[color]: an own entry, else an inherited member, else undefined (<<>>)
ObjectGet(table, color) ==
    IF \E i \in 1..Len(table) : table[i].name = color
    THEN table[CHOOSE i \in 1..Len(table) : table[i].name = color].code
    ELSE IF color \in ObjectPrototypeKeys THEN InheritedMember
    ELSE <<>>

\* a || b on strings
OrElse(a, b) == IF a # <<>> THEN a ELSE b

getNamedColor(color) == OrElse(ObjectGet(NAMED_COLORS, color), <<>>)

getNamedBackgroundColor(color) == OrElse(ObjectGet(NAMED_BACKGROUND_COLORS, color), <<>>)

Digits == <<"0", "1", "2", "3", "4", "5", "6", "7", "8", "9">>

\* String(n) for an integer n >= 0: its decimal digits
DecStr(n) ==
    LET width == CHOOSE w \in 1..12 : n < 10 ^ w /\ (w = 1 \/ n >= 10 ^ (w - 1))
    IN [k \in 1..width |-> Digits[((n \div (10 ^ (width - k))) % 10) + 1]]

\* Math.round: the nearest integer, a half going up
MathRound(value) ==
    IF value.k = "frac" THEN Num(IF value.half THEN value.n + 1 ELSE value.n) ELSE value

\* x || 0 on numbers
OrZero(x) == IF Truthy(x) THEN x ELSE Num(0)

\* the clamp without its upper limit
clampRGBFromBelow(value) == MathMax(Num(0), OrZero(MathRound(value)))

clampRGB(value) == MathMax(Num(0), MathMin(Num(255), OrZero(MathRound(value))))

generateRGBAnsi(r, g, b, isBackground) ==
    (IF isBackground THEN <<"ESC[48;2;">> ELSE <<"ESC[38;2;">>)
    \o DecStr(clampRGB(r).n) \o <<";">> \o DecStr(clampRGB(g).n)
    \o <<";">> \o DecStr(clampRGB(b).n) \o <<"m">>

rgbToAnsi(r, g, b) == generateRGBAnsi(r, g, b, FALSE)

rgbToAnsiBackground(r, g, b) == generateRGBAnsi(r, g, b, TRUE)

HexChars ==
    <<"0", "1", "2", "3", "4", "5", "6", "7", "8", "9", "a", "b", "c", "d", "e", "f">>

HexUpper ==
    <<"0", "1", "2", "3", "4", "5", "6", "7", "8", "9", "A", "B", "C", "D", "E", "F">>

IsHexDigit(c) == \E i \in 1..16 : HexChars[i] = c \/ HexUpper[i] = c

HexValue(c) == (CHOOSE i \in 1..16 : HexChars[i] = c \/ HexUpper[i] = c) - 1

\* the pattern without its end anchor: /^#[0-9A-Fa-f]{6}/
HexPatternPrefix(hex) ==
    /\ Len(hex) >= 7
    /\ hex[1] = "#"
    /\ \A i \in 2..7 : IsHexDigit(hex[i])

\* /^#[0-9A-Fa-f]{6}$/.test(hex)
HexPattern(hex) ==
    /\ Len(hex) = 7
    /\ hex[1] = "#"
    /\ \A i \in 2..7 : IsHexDigit(hex[i])

\* parseInt of the first digit of the pair alone
ParseHexNibble(hex, from) == Num(HexValue(hex[from]))

\* parseInt(hex.slice(from - 1, from + 1), 16) for two hexadecimal digits
ParseHexByte(hex, from) == Num(16 * HexValue(hex[from]) + HexValue(hex[from + 1]))

hexToAnsi(hex) ==
    IF ~HexPattern(hex) THEN <<>>
    ELSE generateRGBAnsi(ParseHexByte(hex, 2), ParseHexByte(hex, 4), ParseHexByte(hex, 6), FALSE)

hexToAnsiBackground(hex) ==
    IF ~HexPattern(hex) THEN <<>>
    ELSE generateRGBAnsi(ParseHexByte(hex, 2), ParseHexByte(hex, 4), ParseHexByte(hex, 6), TRUE)

StartsWith(s, c) == Len(s) > 0 /\ s[1] = c

Includes(s, c) == \E i \in 1..Len(s) : s[i] = c

\* color.split(c): the pieces between the occurrences of c
Split(s, c) ==
    LET at == {i \in 1..Len(s) : s[i] = c}
        \* the k-th occurrence of c; the 0-th is before the string, the last after it
        pos(k) == IF k = 0 THEN 0
                  ELSE IF k > Cardinality(at) THEN Len(s) + 1
                  ELSE CHOOSE p \in at : Cardinality({q \in at : q < p}) = k - 1
    IN [k \in 1..(Cardinality(at) + 1) |-> SubSeq(s, pos(k - 1) + 1, pos(k) - 1)]

\* s.trim(), for the space character
Trim(s) ==
    LET solid == {i \in 1..Len(s) : s[i] # " "}
    IN IF solid = {} THEN <<>>
       ELSE SubSeq(s, CHOOSE i \in solid : \A j \in solid : i <= j,
                      CHOOSE i \in solid : \A j \in solid : i >= j)

IsDigit(c) == \E i \in 1..10 : Digits[i] = c

DigitValue(c) == (CHOOSE i \in 1..10 : Digits[i] = c) - 1

\* the value of a run of decimal digits
DecValue(s) ==
    LET value[k \in 0..Len(s)] ==
            IF k = 0 THEN 0 ELSE 10 * value[k - 1] + DigitValue(s[k])
    IN value[Len(s)]

InfinityWord == <<"I", "n", "f", "i", "n", "i", "t", "y">>

AllDigits(s) == \A i \in 1..Len(s) : IsDigit(s[i])

\* the decimal literal whole.fraction with the given sign
DecimalLiteral(sign, whole, fraction) ==
    IF DecValue(fraction) = 0 THEN Num(sign * DecValue(whole))
    ELSE IF sign = 1
    THEN Frac(DecValue(whole), 2 * DecValue(fraction) >= 10 ^ Len(fraction))
    ELSE Frac(-DecValue(whole) - 1, 2 * DecValue(fraction) <= 10 ^ Len(fraction))

\* a literal with a decimal point at position dot
PointLiteral(sign, body, dot) ==
    IF Len(body) > 1 /\ AllDigits(SubSeq(body, 1, dot - 1))
                     /\ AllDigits(SubSeq(body, dot + 1, Len(body)))
    THEN DecimalLiteral(sign, SubSeq(body, 1, dot - 1), SubSeq(body, dot + 1, Len(body)))
    ELSE NaN

\* the numeric literal `body` with the given sign: a run of digits is its value,
\* digits around one decimal point a decimal, "Infinity" an infinity, the rest NaN
SignedLiteral(sign, body) ==
    IF body = InfinityWord THEN (IF sign = 1 THEN PosInf ELSE NegInf)
    ELSE IF Len(body) > 0 /\ AllDigits(body) THEN Num(sign * DecValue(body))
    ELSE IF Includes(body, ".") THEN PointLiteral(sign, body, CHOOSE i \in 1..Len(body) : body[i] = ".")
    ELSE NaN

TrimmedToNumber(t) ==
    IF Len(t) = 0 THEN Num(0)
    ELSE IF t[1] = "-" THEN SignedLiteral(-1, Tail(t))
    ELSE IF t[1] = "+" THEN SignedLiteral(1, Tail(t))
    ELSE SignedLiteral(1, t)

\* Number(s) for a string over digits, sign, decimal point, space and letters:
\* whitespace is trimmed and the empty string is 0.  (Exponents and radix
\* prefixes are outside this alphabet.)
StringToNumber(s) == TrimmedToNumber(Trim(s))

\* Number of an array element that may be missing: undefined is NaN
NumberAt(parts, i) == IF i > Len(parts) THEN NaN ELSE StringToNumber(parts[i])

\* parseRGB without its isNaN test
RGBResultUnchecked(r, g, b) == [ok |-> TRUE, r |-> r, g |-> g, b |-> b]

\* isNaN(r) || isNaN(g) || isNaN(b) gives null, written [ok |-> FALSE]
RGBResult(r, g, b) ==
    IF r.k = "nan" \/ g.k = "nan" \/ b.k = "nan"
    THEN [ok |-> FALSE, r |-> NaN, g |-> NaN, b |-> NaN]
    ELSE [ok |-> TRUE, r |-> r, g |-> g, b |-> b]

\* const [r, g, b] = parts.map(Number)
RGBOfParts(parts) == RGBResult(NumberAt(parts, 1), NumberAt(parts, 2), NumberAt(parts, 3))

parseRGB(color) == RGBOfParts(Split(color, ","))

Cyan == <<"c", "y", "a", "n">>

\* if (!rgbValues) return ''; return rgbToAnsi(...) or rgbToAnsiBackground(...)
RGBCode(rgbValues, isBackground) ==
    IF ~rgbValues.ok THEN <<>>
    ELSE IF isBackground THEN rgbToAnsiBackground(rgbValues.r, rgbValues.g, rgbValues.b)
    ELSE rgbToAnsi(rgbValues.r, rgbValues.g, rgbValues.b)

\* getColorCode with a failed RGB parse falling through to the name lookup
getColorCodeFallThrough(color) ==
    IF StartsWith(color, "#") THEN hexToAnsi(color)
    ELSE IF Includes(color, ",") /\ parseRGB(color).ok THEN RGBCode(parseRGB(color), FALSE)
    ELSE OrElse(getNamedColor(color), getNamedColor(Cyan))

getColorCode(color) ==
    IF StartsWith(color, "#") THEN hexToAnsi(color)
    ELSE IF Includes(color, ",") THEN RGBCode(parseRGB(color), FALSE)
    ELSE OrElse(getNamedColor(color), getNamedColor(Cyan))

getBackgroundColorCode(color) ==
    IF StartsWith(color, "#") THEN hexToAnsiBackground(color)
    ELSE IF Includes(color, ",") THEN RGBCode(parseRGB(color), TRUE)
    ELSE OrElse(getNamedBackgroundColor(color), <<>>)

\* the codes pushed in the order underline, italic, bold
getStyleCodeReversed(styles) ==
    (IF styles.underline THEN <<"ESC[4m">> ELSE <<>>)
    \o (IF styles.italic THEN <<"ESC[3m">> ELSE <<>>)
    \o (IF styles.bold THEN <<"ESC[1m">> ELSE <<>>)

getStyleCode(styles) ==
    (IF styles.bold THEN <<"ESC[1m">> ELSE <<>>)
    \o (IF styles.italic THEN <<"ESC[3m">> ELSE <<>>)
    \o (IF styles.underline THEN <<"ESC[4m">> ELSE <<>>)

(***************************************************************************)
(* The terminal and the step machine.                                      *)
(*                                                                         *)
(* An operation runs on a record m: the instance (o), its registered       *)
(* timers (t), the writes (w) and warnings (warns) made so far, the        *)
(* continuations it suspended (q), and whether it has thrown.  A call of   *)
(* process.stdout.write is an external call that may throw (a synchronous  *)
(* stream such as a redirected file raises the error of the write): the    *)
(* call numbered failAt, if it is made, throws.  A statement after a throw *)
(* is not executed.                                                        *)
(***************************************************************************)
CR == "CR"
EraseLine == "ESC[K"
Reset == "ESC[0m"
NL == "LF"

\* the value of a timer field that holds no handle (null)
NullTimer == 0

NoObject == [cls |-> "none"]

\* for an operation that makes at most n write calls: the call that throws,
\* or 0 when none does
FailPoints(n) == 0..n

Begin(i, failAt) ==
    [o |-> objs[i], t |-> timers[i], w |-> <<>>, warns |-> <<>>, q |-> <<>>,
     calls |-> 0, failAt |-> failAt, thrown |-> FALSE]

\* process.stdout.write(data)
StdoutWrite(m, data) ==
    IF m.thrown THEN m
    ELSE IF m.calls + 1 = m.failAt
         THEN [m EXCEPT !.calls = @ + 1, !.thrown = TRUE]
         ELSE [m EXCEPT !.calls = @ + 1, !.w = Append(@, data)]

\* console.warn(message): the console swallows the errors of its stream
ConsoleWarn(m, message) ==
    IF m.thrown THEN m ELSE [m EXCEPT !.warns = Append(@, message)]

\* setInterval(callback, 80): a handle not registered yet
SetInterval(m) ==
    CHOOSE h \in 1..(Cardinality(m.t) + 1) :
        h \notin m.t /\ \A k \in 1..(h - 1) : k \in m.t

\* the part of a frame and of a status line that shows the display text
TextPart(text) == IF text # "" THEN <<" ", text>> ELSE <<>>

ColorPart(options) ==
    IF options.color # <<>> THEN getColorCode(options.color) ELSE <<>>

BackgroundPart(options) ==
    IF options.backgroundColor # <<>>
    THEN getBackgroundColorCode(options.backgroundColor)
    ELSE <<>>

StylePart(options) ==
    getStyleCode([bold |-> options.bold, italic |-> options.italic,
                  underline |-> options.underline])

(***************************************************************************)
(* core/Spinner                                                            *)
(***************************************************************************)
Green == <<"g", "r", "e", "e", "n">>
Red == <<"r", "e", "d">>
Yellow == <<"y", "e", "l", "l", "o", "w">>
Blue == <<"b", "l", "u", "e">>

SpinnerDefaultOptions ==
    [text |-> Str(""), style |-> Str("dots"), color |-> Str(Cyan),
     backgroundColor |-> Str(<<>>), show |-> Bool(TRUE),
     spinner |-> Arr(<<"f0", "f1", "f2", "f3", "f4", "f5", "f6", "f7", "f8", "f9">>),
     bold |-> Bool(FALSE), italic |-> Bool(FALSE), underline |-> Bool(FALSE)]

\* mergedOptions: options.x ?? this.defaultOptions.x, field by field
SpinnerMergedOptions(options, d) ==
    [text |-> Coalesce(options.text, d.text).s,
     style |-> Coalesce(options.style, d.style).s,
     color |-> Coalesce(options.color, d.color).s,
     backgroundColor |-> Coalesce(options.backgroundColor, d.backgroundColor).s,
     show |-> Coalesce(options.show, d.show).b,
     spinner |-> Coalesce(options.spinner, d.spinner).a,
     bold |-> Coalesce(options.bold, d.bold).b,
     italic |-> Coalesce(options.italic, d.italic).b,
     underline |-> Coalesce(options.underline, d.underline).b]

SpinnerInstance(mergedOptions) ==
    [cls |-> "Spinner", text |-> mergedOptions.text, isRunning |-> FALSE,
     frameIndex |-> 0, intervalId |-> NullTimer, options |-> mergedOptions]

\* new Spinner(options)
SpinnerConstructor(options) ==
    SpinnerInstance(SpinnerMergedOptions(options, SpinnerDefaultOptions))

\* a frame with the text part before the glyph
SpinnerFrameTextFirst(o) ==
    <<CR, EraseLine>> \o StylePart(o.options) \o BackgroundPart(o.options)
    \o ColorPart(o.options) \o TextPart(o.text)
    \o <<o.options.spinner[(o.frameIndex % Len(o.options.spinner)) + 1]>>
    \o <<Reset>>

\* the string render writes for the instance o
SpinnerFrame(o) ==
    <<CR, EraseLine>> \o StylePart(o.options) \o BackgroundPart(o.options)
    \o ColorPart(o.options)
    \o <<o.options.spinner[(o.frameIndex % Len(o.options.spinner)) + 1]>>
    \o TextPart(o.text) \o <<Reset>>

\* render without `this.state.frameIndex++`
SpinnerNoAdvance(m) == m

\* this.state.frameIndex++, reached when the write returned
SpinnerAdvance(m) == IF m.thrown THEN m ELSE [m EXCEPT !.o.frameIndex = @ + 1]

\* render without the early return on an empty frame array: the glyph read
\* from the array is then undefined
SpinnerRenderAnyFrames(m) ==
    IF m.thrown THEN m
    ELSE IF ~m.o.isRunning \/ ~m.o.options.show THEN m
    ELSE SpinnerAdvance(StdoutWrite(m,
             IF Len(m.o.options.spinner) = 0
             THEN <<CR, EraseLine, "undefined", Reset>>
             ELSE SpinnerFrame(m.o)))

SpinnerRender(m) ==
    IF m.thrown THEN m
    ELSE IF ~m.o.isRunning \/ ~m.o.options.show THEN m
    ELSE IF Len(m.o.options.spinner) = 0 THEN m
    ELSE SpinnerAdvance(StdoutWrite(m, SpinnerFrame(m.o)))

\* this.intervalId = setInterval(() => this.render(), 80), reached when the
\* first render returned
Schedule(m) ==
    IF m.thrown THEN m
    ELSE [m EXCEPT !.o.intervalId = SetInterval(m), !.t = @ \cup {SetInterval(m)}]

\* if (text) this.state.text = text
WithText(m, text) == IF Truthy(text) THEN [m EXCEPT !.o.text = text.s] ELSE m

\* start without `this.state.frameIndex = 0`
SpinnerStartNoReset(m, text) ==
    IF m.o.isRunning THEN m
    ELSE Schedule(SpinnerRender([WithText(m, text) EXCEPT !.o.isRunning = TRUE]))

\* start without the `if (this.state.isRunning) return` guard
SpinnerStartUnguarded(m, text) ==
    Schedule(SpinnerRender(
        [WithText(m, text) EXCEPT !.o.isRunning = TRUE, !.o.frameIndex = 0]))

SpinnerStart(m, text) ==
    IF m.o.isRunning THEN m
    ELSE Schedule(SpinnerRender(
             [WithText(m, text) EXCEPT !.o.isRunning = TRUE, !.o.frameIndex = 0]))

\* if (this.intervalId) { clearInterval(this.intervalId); this.intervalId = null }
ClearInterval(m) ==
    IF m.o.intervalId # NullTimer
    THEN [m EXCEPT !.t = @ \ {m.o.intervalId}, !.o.intervalId = NullTimer]
    ELSE m

\* stop without the `if (!this.state.isRunning) return` guard
SpinnerStopUnguarded(m) ==
    IF m.thrown THEN m
    ELSE StdoutWrite(ClearInterval([m EXCEPT !.o.isRunning = FALSE]), <<CR, EraseLine>>)

SpinnerStop(m) ==
    IF m.thrown THEN m
    ELSE IF ~m.o.isRunning THEN m
    ELSE StdoutWrite(ClearInterval([m EXCEPT !.o.isRunning = FALSE]), <<CR, EraseLine>>)

\* updateText without the render of a running spinner
SpinnerUpdateTextSilent(m, text) == [m EXCEPT !.o.text = text.s]

SpinnerUpdateText(m, text) ==
    IF m.o.isRunning THEN SpinnerRender([m EXCEPT !.o.text = text.s])
    ELSE [m EXCEPT !.o.text = text.s]

\* `await this.stop()`: the rest of the body is suspended as a continuation,
\* unless stop() threw and the promise is rejected
Suspend(m, kind, text) ==
    IF m.thrown THEN m ELSE [m EXCEPT !.q = Append(@, [kind |-> kind, text |-> text])]

\* succeed, fail, warn, info up to the await
SpinnerStatus(m, kind, text) == Suspend(SpinnerStop(m), kind, text)

StatusSymbol(kind) ==
    CASE kind = "succeed" -> "U+2714"
      [] kind = "fail" -> "U+2716"
      [] kind = "warn" -> "U+26A0"
      [] kind = "info" -> "U+2139"

StatusColor(kind) ==
    CASE kind = "succeed" -> Green
      [] kind = "fail" -> Red
      [] kind = "warn" -> Yellow
      [] kind = "info" -> Blue

\* text || this.state.text
StatusMessage(o, text) == IF Truthy(text) THEN text.s ELSE o.text

\* a status line whose message becomes the display text
SpinnerStatusLineAsText(m, kind, text) ==
    StdoutWrite([m EXCEPT !.o.text = StatusMessage(m.o, text)],
                getColorCode(StatusColor(kind))
                \o <<StatusSymbol(kind), Reset, " ", StatusMessage(m.o, text), NL>>)

\* succeed, fail, warn, info after the await
SpinnerStatusLine(m, kind, text) ==
    StdoutWrite(m, getColorCode(StatusColor(kind))
                   \o <<StatusSymbol(kind), Reset, " ", StatusMessage(m.o, text), NL>>)

(***************************************************************************)
(* core/Progress                                                           *)
(***************************************************************************)
ProgressDefaultOptions ==
    [text |-> Str(""), total |-> Num(100), current |-> Num(0), style |-> Str("bar"),
     color |-> Str(Cyan), backgroundColor |-> Str(<<>>), show |-> Bool(TRUE),
     bold |-> Bool(FALSE), italic |-> Bool(FALSE), underline |-> Bool(FALSE)]

ProgressStyles == {"bar", "blocks", "dots"}

\* the result of validateOptions: the error thrown (or ""), and the caller's
\* options object as the call leaves it
Validated(error, options) == [error |-> error, options |-> options]

\* validation without the style check
AnyStyle(options) == Validated("", options)

\* validation without the upper clamp of current
KeepCurrent(options) == options

\* if (options.style !== undefined && !['bar', 'blocks', 'dots'].includes(options.style))
ValidateStyle(options) ==
    IF options.style.t # "undefined"
       /\ ~(options.style.t = "string" /\ options.style.s \in ProgressStyles)
    THEN Validated("Progress style must be one of: bar, blocks, dots", options)
    ELSE Validated("", options)

\* if (options.current > options.total) options.current = options.total
ClampCurrentHigh(options) ==
    IF NumGt(options.current, options.total)
    THEN [options EXCEPT !.current = options.total]
    ELSE options

\* if (options.current < 0) options.current = 0
ClampCurrentLow(options) ==
    IF NumLt(options.current, Num(0)) THEN [options EXCEPT !.current = Num(0)]
    ELSE options

\* the code clamps current in the caller's object itself
validateOptions(options) ==
    IF options.total.t # "number" \/ ~NumberIsFinite(options.total)
       \/ NumLe(options.total, Num(0))
    THEN Validated("Progress total must be a positive finite number", options)
    ELSE IF options.current.t = "undefined" THEN ValidateStyle(options)
    ELSE IF options.current.t # "number" \/ ~NumberIsFinite(options.current)
    THEN Validated("Progress current must be a finite number", options)
    ELSE ValidateStyle(ClampCurrentHigh(ClampCurrentLow(options)))

ProgressMergedOptions(validatedOptions, d) ==
    [text |-> Coalesce(validatedOptions.text, d.text).s,
     total |-> validatedOptions.total,
     current |-> Coalesce(validatedOptions.current, d.current),
     style |-> Coalesce(validatedOptions.style, d.style).s,
     color |-> Coalesce(validatedOptions.color, d.color).s,
     backgroundColor |-> Coalesce(validatedOptions.backgroundColor, d.backgroundColor).s,
     show |-> Coalesce(validatedOptions.show, d.show).b,
     bold |-> Coalesce(validatedOptions.bold, d.bold).b,
     italic |-> Coalesce(validatedOptions.italic, d.italic).b,
     underline |-> Coalesce(validatedOptions.underline, d.underline).b]

ProgressInstance(mergedOptions) ==
    [cls |-> "Progress", text |-> mergedOptions.text, total |-> mergedOptions.total,
     current |-> mergedOptions.current, isRunning |-> FALSE,
     intervalId |-> NullTimer, options |-> mergedOptions]

\* the constructor after validateOptions returned or threw
ProgressOfValidated(v) ==
    IF v.error # "" THEN NoObject
    ELSE ProgressInstance(ProgressMergedOptions(v.options, ProgressDefaultOptions))

\* new Progress(options): the instance, or NoObject when validation throws
ProgressConstructor(options) == ProgressOfValidated(validateOptions(options))

\* const width = 20
BarWidth == 20

\* Math.floor(p / q) in the place of Math.round
FloorDiv(p, q) == p \div q

\* Math.round(p / q) for integers p >= 0, q > 0: halves round up
RoundDiv(p, q) == (2 * p + q) \div (2 * q)

Percent(num, den) == [k |-> "fin", num |-> num, den |-> den]

\* total > 0 ? Math.min(100, Math.max(0, (current / total) * 100)) : 0, as the
\* fraction num / den of a percent, or NaN
Percentage(current, total) ==
    IF ~NumGt(total, Num(0)) THEN Percent(0, 1)
    ELSE IF current.k = "nan" \/ (current.k = "inf" /\ total.k = "inf")
    THEN [k |-> "nan", num |-> 0, den |-> 1]
    ELSE IF current.k = "inf" THEN Percent(IF current.n > 0 THEN 100 ELSE 0, 1)
    ELSE IF total.k = "inf" THEN Percent(0, 1)
    ELSE IF current.n < 0 THEN Percent(0, 1)
    ELSE IF current.n > total.n THEN Percent(100, 1)
    ELSE Percent(100 * current.n, total.n)

\* String(tenths / 10) with one decimal
Tenths(tenths) == DecStr(tenths \div 10) \o <<".", Digits[(tenths % 10) + 1]>>

\* percentage.toFixed(1)
ToFixed1(percentage) ==
    IF percentage.k = "nan" THEN <<"NaN">>
    ELSE Tenths(RoundDiv(10 * percentage.num, percentage.den))

\* glyph.repeat(count)
Repeat(glyph, count) == [k \in 1..count |-> glyph]

\* filledGlyph.repeat(filled) + emptyGlyph.repeat(width - filled)
Bar(filled, filledGlyph, emptyGlyph) ==
    Repeat(filledGlyph, filled) \o Repeat(emptyGlyph, BarWidth - filled)

\* const filled = Math.round((percentage / 100) * width); a NaN count repeats nothing
RenderBar(percentage, filledGlyph, emptyGlyph) ==
    IF percentage.k = "nan" THEN <<>>
    ELSE Bar(RoundDiv(percentage.num * BarWidth, 100 * percentage.den),
             filledGlyph, emptyGlyph)

renderBarStyle(percentage) == RenderBar(percentage, "U+2588", "U+2591")

renderBlocksStyle(percentage) == RenderBar(percentage, "U+25A3", "U+25A2")

renderDotsStyle(percentage) == RenderBar(percentage, "U+25CF", "U+25CB")

\* switch (style)
VisualBar(style, percentage) ==
    CASE style = "bar" -> renderBarStyle(percentage)
      [] style = "blocks" -> renderBlocksStyle(percentage)
      [] style = "dots" -> renderDotsStyle(percentage)
      [] OTHER -> renderBarStyle(percentage)

\* the string render writes for the instance o at the given percentage
ProgressFrame(o, percentage) ==
    <<CR, EraseLine>> \o StylePart(o.options) \o BackgroundPart(o.options)
    \o ColorPart(o.options) \o VisualBar(o.options.style, percentage)
    \o <<" ">> \o ToFixed1(percentage) \o <<"%">> \o TextPart(o.text) \o <<Reset>>

\* render without the test of options.show
ProgressRenderShown(m) ==
    IF m.thrown THEN m
    ELSE IF ~m.o.isRunning THEN m
    ELSE StdoutWrite(m, ProgressFrame(m.o, Percentage(m.o.current, m.o.total)))

ProgressRender(m) ==
    IF m.thrown THEN m
    ELSE IF ~m.o.isRunning \/ ~m.o.options.show THEN m
    ELSE StdoutWrite(m, ProgressFrame(m.o, Percentage(m.o.current, m.o.total)))

\* start that also sets current back to 0
ProgressStartFromZero(m, text) ==
    IF m.o.isRunning THEN m
    ELSE Schedule(ProgressRender([WithText(m, text) EXCEPT !.o.isRunning = TRUE,
                                                           !.o.current = Num(0)]))

ProgressStart(m, text) ==
    IF m.o.isRunning THEN m
    ELSE Schedule(ProgressRender([WithText(m, text) EXCEPT !.o.isRunning = TRUE]))

\* update and updateText without the render that follows the assignment
NoRender(m) == m

\* if (this.state.isRunning) this.render()
ProgressRenderIfRunning(m) == IF m.o.isRunning THEN ProgressRender(m) ELSE m

\* update without the Math.max / Math.min clamp
ProgressUpdateUnclamped(m, current) ==
    IF m.thrown THEN m
    ELSE IF ~NumberIsFinite(current)
    THEN ConsoleWarn(m, "Progress update: Invalid value provided, ignoring update")
    ELSE ProgressRenderIfRunning([m EXCEPT !.o.current = current])

\* update without the Number.isFinite check
ProgressUpdateUnchecked(m, current) ==
    IF m.thrown THEN m
    ELSE ProgressRenderIfRunning(
             [m EXCEPT !.o.current = MathMax(Num(0), MathMin(m.o.total, current))])

ProgressUpdate(m, current) ==
    IF m.thrown THEN m
    ELSE IF ~NumberIsFinite(current)
    THEN ConsoleWarn(m, "Progress update: Invalid value provided, ignoring update")
    ELSE ProgressRenderIfRunning(
             [m EXCEPT !.o.current = MathMax(Num(0), MathMin(m.o.total, current))])

\* increment that passes the amount itself to update
ProgressIncrementAbsolute(m, amount) ==
    IF ~NumberIsFinite(amount)
    THEN ConsoleWarn(m, "Progress increment: Invalid amount provided, ignoring increment")
    ELSE ProgressUpdate(m, amount)

ProgressIncrement(m, amount) ==
    IF ~NumberIsFinite(amount)
    THEN ConsoleWarn(m, "Progress increment: Invalid amount provided, ignoring increment")
    ELSE ProgressUpdate(m, NumAdd(m.o.current, amount))

\* stop without clearInterval
ProgressStopKeepingTimer(m) ==
    IF m.thrown THEN m
    ELSE IF ~m.o.isRunning THEN m
    ELSE StdoutWrite([m EXCEPT !.o.isRunning = FALSE], <<CR, EraseLine>>)

ProgressStop(m) ==
    IF m.thrown THEN m
    ELSE IF ~m.o.isRunning THEN m
    ELSE StdoutWrite(ClearInterval([m EXCEPT !.o.isRunning = FALSE]), <<CR, EraseLine>>)

\* succeed, fail, warn, info up to `await this.stop()`
ProgressStatus(m, kind, text) == Suspend(ProgressStop(m), kind, text)

\* succeed, fail, warn, info after the await
ProgressStatusLine(m, kind, text) ==
    StdoutWrite(m, getColorCode(StatusColor(kind))
                   \o <<StatusSymbol(kind), Reset, " ", StatusMessage(m.o, text), NL>>)

\* complete without `this.update(this.state.total)`
ProgressCompleteNoUpdate(m) == ProgressStatus(m, "succeed", Undefined)

\* complete up to the await inside `await this.succeed()`
ProgressComplete(m) == ProgressStatus(ProgressUpdate(m, m.o.total), "succeed", Undefined)

ProgressUpdateText(m, text) == ProgressRenderIfRunning([m EXCEPT !.o.text = text.s])

(***************************************************************************)
(* The inputs the callers draw from.                                       *)
(***************************************************************************)
NoOptions ==
    [text |-> Undefined, style |-> Undefined, color |-> Undefined,
     backgroundColor |-> Undefined, show |-> Undefined, spinner |-> Undefined,
     bold |-> Undefined, italic |-> Undefined, underline |-> Undefined]

\* a display text of two lines
TwoLines == "Load\nmore"

SpinnerOptionChoices ==
    { NoOptions,
      [NoOptions EXCEPT !.text = Str(TwoLines), !.spinner = Arr(<<"-", "+">>),
                        !.color = Str(Red), !.bold = Bool(TRUE)],
      [NoOptions EXCEPT !.show = Bool(FALSE), !.spinner = Arr(<<"-", "+">>)],
      [NoOptions EXCEPT !.spinner = Arr(<<>>)],
      [NoOptions EXCEPT !.style = Str("arrows")] }

NoProgressOptions ==
    [text |-> Undefined, total |-> Undefined, current |-> Undefined,
     style |-> Undefined, color |-> Undefined, backgroundColor |-> Undefined,
     show |-> Undefined, bold |-> Undefined, italic |-> Undefined,
     underline |-> Undefined]

TotalChoices == {Undefined, Str("2"), NaN, PosInf, Num(-1), Num(0), Num(2)}

CurrentChoices == {Undefined, Null, Str("1"), NaN, NegInf, Num(-1), Num(1), Num(MaxNum)}

StyleChoices == {Undefined, Null, Str("bar"), Str("dots"), Str("wave")}

ProgressOptionChoices ==
    { [NoProgressOptions EXCEPT !.total = t, !.current = c, !.style = st] :
        t \in TotalChoices, c \in CurrentChoices, st \in StyleChoices }
    \cup { [NoProgressOptions EXCEPT !.total = Num(2), !.text = Str("Load"),
                                     !.show = Bool(FALSE)] }

\* the optional text of start and of the status calls
TextArgs == {Undefined, Str(""), Str("done")}

\* the text of updateText
NewTexts == {Str(""), Str("done")}

NumArgs == {NaN, PosInf, NegInf} \cup {Num(n) : n \in (-MaxNum)..MaxNum}

StatusKinds == {"succeed", "fail", "warn", "info"}

(***************************************************************************)
(* The steps.  Caller operations run to completion (to their first await); *)
(* a suspended continuation runs as a microtask, before any timer: a timer *)
(* fires only when no microtask is pending.  A caller that does not await  *)
(* issues its next operation while a continuation is still pending.        *)
(* `last`, `written` and `warned` record the call in progress; they are    *)
(* dropped when the call returns, and the next step begins from there.     *)
(***************************************************************************)
Constructed(i) == objs[i].cls # "none"

\* no call is in progress
Idle == last.op = "none"

\* no instance has been constructed under the identifier
Unused(i) == Idle /\ ~Constructed(i)

IsSpinner(i) == objs[i].cls = "Spinner"

IsProgress(i) == objs[i].cls = "Progress"

Step(op, kind, i, arg, outcome, wasRunning) ==
    [op |-> op, kind |-> kind, id |-> i, arg |-> arg, outcome |-> outcome,
     wasRunning |-> wasRunning]

\* a commit that stores the timers of the operation under every instance
CommitTimersOfAll(i, m, op, kind, arg, pending) ==
    /\ objs' = [objs EXCEPT ![i] = m.o]
    /\ timers' = [j \in DOMAIN timers |-> m.t]
    /\ microtasks' = pending \o [k \in 1..Len(m.q) |-> [id |-> i, kind |-> m.q[k].kind,
                                                      text |-> m.q[k].text]]
    /\ written' = m.w
    /\ warned' = m.warns
    /\ last' = Step(op, kind, i, arg, IF m.thrown THEN "throw" ELSE "return",
                    objs[i].isRunning)

\* the state after an operation that ran on m
Commit(i, m, op, kind, arg, pending) ==
    /\ objs' = [objs EXCEPT ![i] = m.o]
    /\ timers' = [timers EXCEPT ![i] = m.t]
    /\ microtasks' = pending \o [k \in 1..Len(m.q) |-> [id |-> i, kind |-> m.q[k].kind,
                                                      text |-> m.q[k].text]]
    /\ written' = m.w
    /\ warned' = m.warns
    /\ last' = Step(op, kind, i, arg, IF m.thrown THEN "throw" ELSE "return",
                    objs[i].isRunning)

Init ==
    /\ objs = [i \in Ids |-> NoObject]
    /\ timers = [i \in Ids |-> {}]
    /\ microtasks = <<>>
    /\ written = <<>>
    /\ warned = <<>>
    /\ last = Step("none", "", 0, Undefined, "return", FALSE)

NewSpinner(i) ==
    /\ Unused(i)
    /\ \E options \in SpinnerOptionChoices :
        /\ objs' = [objs EXCEPT ![i] = SpinnerConstructor(options)]
        /\ last' = Step("new Spinner", "", i, options, "return", FALSE)
    /\ written' = <<>>
    /\ warned' = <<>>
    /\ UNCHANGED <<timers, microtasks>>

NewProgress(i) ==
    /\ Unused(i)
    /\ \E options \in ProgressOptionChoices :
        /\ objs' = [objs EXCEPT ![i] = ProgressConstructor(options)]
        \* `arg` is the options object as the caller passed it, `options` the
        \* same object as the constructor leaves it
        /\ last' = [op |-> "new Progress", kind |-> "", id |-> i, arg |-> options,
                    outcome |-> IF validateOptions(options).error # ""
                                THEN "throw" ELSE "return",
                    wasRunning |-> FALSE,
                    options |-> validateOptions(options).options]
    /\ written' = <<>>
    /\ warned' = <<>>
    /\ UNCHANGED <<timers, microtasks>>

\* rendering is bounded for a spinner: its frameIndex counts the frames
MayRender(i) == IsSpinner(i) => objs[i].frameIndex < MaxFrameIndex

Start(i) ==
    /\ Idle
    /\ Constructed(i)
    /\ \E text \in TextArgs, failAt \in FailPoints(1) :
        Commit(i, IF IsSpinner(i) THEN SpinnerStart(Begin(i, failAt), text)
                  ELSE ProgressStart(Begin(i, failAt), text),
               "start", "", text, microtasks)

Stop(i) ==
    /\ Idle
    /\ Constructed(i)
    /\ \E failAt \in FailPoints(1) :
        Commit(i, IF IsSpinner(i) THEN SpinnerStop(Begin(i, failAt))
                  ELSE ProgressStop(Begin(i, failAt)),
               "stop", "", Undefined, microtasks)

Status(i) ==
    /\ Idle
    /\ Constructed(i)
    /\ Len(microtasks) < MaxPending
    /\ \E kind \in StatusKinds, text \in TextArgs, failAt \in FailPoints(1) :
        Commit(i, IF IsSpinner(i) THEN SpinnerStatus(Begin(i, failAt), kind, text)
                  ELSE ProgressStatus(Begin(i, failAt), kind, text),
               "status", kind, text, microtasks)

\* the microtask at the head of the queue: a status call resumes after its await
StatusLine ==
    /\ Idle
    /\ microtasks # <<>>
    /\ LET c == Head(microtasks)
       IN \E failAt \in FailPoints(1) :
           Commit(c.id, IF IsSpinner(c.id)
                        THEN SpinnerStatusLine(Begin(c.id, failAt), c.kind, c.text)
                        ELSE ProgressStatusLine(Begin(c.id, failAt), c.kind, c.text),
                  "statusLine", c.kind, c.text, Tail(microtasks))

UpdateText(i) ==
    /\ Idle
    /\ Constructed(i)
    /\ MayRender(i)
    /\ \E text \in NewTexts, failAt \in FailPoints(1) :
        Commit(i, IF IsSpinner(i) THEN SpinnerUpdateText(Begin(i, failAt), text)
                  ELSE ProgressUpdateText(Begin(i, failAt), text),
               "updateText", "", text, microtasks)

Update(i) ==
    /\ Idle
    /\ Constructed(i)
    /\ IsProgress(i)
    /\ \E current \in NumArgs, failAt \in FailPoints(1) :
        Commit(i, ProgressUpdate(Begin(i, failAt), current), "update", "", current,
               microtasks)

Increment(i) ==
    /\ Idle
    /\ Constructed(i)
    /\ IsProgress(i)
    /\ \E amount \in NumArgs, failAt \in FailPoints(1) :
        Commit(i, ProgressIncrement(Begin(i, failAt), amount), "increment", "", amount,
               microtasks)

Complete(i) ==
    /\ Idle
    /\ Constructed(i)
    /\ IsProgress(i)
    /\ Len(microtasks) < MaxPending
    /\ \E failAt \in FailPoints(2) :
        Commit(i, ProgressComplete(Begin(i, failAt)), "complete", "", Undefined,
               microtasks)

\* the interval callback () => this.render() of a registered timer
Tick(i) ==
    /\ Idle
    /\ Constructed(i)
    /\ timers[i] # {}
    /\ microtasks = <<>>
    /\ MayRender(i)
    /\ \E failAt \in FailPoints(1) :
        Commit(i, IF IsSpinner(i) THEN SpinnerRender(Begin(i, failAt))
                  ELSE ProgressRender(Begin(i, failAt)),
               "tick", "", Undefined, microtasks)

\* the call returns: what it wrote is on the terminal, its record is dropped
Return ==
    /\ ~Idle
    /\ last' = Step("none", "", 0, Undefined, "return", FALSE)
    /\ written' = <<>>
    /\ warned' = <<>>
    /\ UNCHANGED <<objs, timers, microtasks>>

Next ==
    \/ \E i \in Ids : NewSpinner(i)
    \/ \E i \in Ids : NewProgress(i)
    \/ \E i \in Ids : Start(i)
    \/ \E i \in Ids : Stop(i)
    \/ \E i \in Ids : Status(i)
    \/ StatusLine
    \/ \E i \in Ids : UpdateText(i)
    \/ \E i \in Ids : Update(i)
    \/ \E i \in Ids : Increment(i)
    \/ \E i \in Ids : Complete(i)
    \/ \E i \in Ids : Tick(i)
    \/ Return

Spec == Init /\ [][Next]_vars

(***************************************************************************)
(* A spinner that animates without end.  render reads the frame index only *)
(* modulo the number of frames, so a timer tick keeps the index modulo     *)
(* that number and the unbounded counter of the code needs no bound.  The  *)
(* event loop runs a registered timer again and again whenever no call is  *)
(* in progress and no microtask is pending; a call in progress returns and *)
(* a pending microtask runs.                                               *)
(***************************************************************************)
\* the interval callback () => this.render(), the frame index kept modulo the
\* number of frames
LiveTick(i) ==
    /\ Idle
    /\ Constructed(i)
    /\ timers[i] # {}
    /\ microtasks = <<>>
    /\ \E failAt \in FailPoints(1) :
        Commit(i, [SpinnerRender(Begin(i, failAt)) EXCEPT
                     !.o.frameIndex = IF Len(objs[i].options.spinner) > 0
                                      THEN @ % Len(objs[i].options.spinner) ELSE @],
               "tick", "", Undefined, microtasks)

LiveNext ==
    \/ \E i \in Ids : NewSpinner(i)
    \/ \E i \in Ids : Start(i)
    \/ \E i \in Ids : Stop(i)
    \/ \E i \in Ids : Status(i)
    \/ StatusLine
    \/ \E i \in Ids : LiveTick(i)
    \/ Return

SpecLive ==
    /\ Init
    /\ [][LiveNext]_vars
    /\ SF_vars(\E i \in Ids : LiveTick(i))
    /\ SF_vars(StatusLine)
    /\ WF_vars(Return)

(***************************************************************************)
(* Two instances side by side: a program that has constructed two          *)
(* components, each a Spinner or a Progress, and operates both.  It calls  *)
(* start and the status operations without a text, uses succeed and fail,  *)
(* and awaits a status call or complete() before it issues the next.       *)
(***************************************************************************)
PairIds == {1, 2}

PairInit ==
    /\ objs \in [PairIds -> { SpinnerConstructor([NoOptions EXCEPT !.spinner = Arr(<<"-", "+">>)]),
                              ProgressConstructor([NoProgressOptions EXCEPT !.total = Num(2)]) }]
    /\ timers = [i \in PairIds |-> {}]
    /\ microtasks = <<>>
    /\ written = <<>>
    /\ warned = <<>>
    /\ last = Step("none", "", 0, Undefined, "return", FALSE)

PairNext ==
    \/ \E i \in PairIds : Start(i) /\ last'.arg = Undefined
    \/ \E i \in PairIds : Stop(i)
    \/ \E i \in PairIds : microtasks = <<>> /\ Status(i)
                             /\ last'.kind \in {"succeed", "fail"} /\ last'.arg = Undefined
    \/ StatusLine
    \/ \E i \in PairIds : UpdateText(i) /\ last'.arg = Str("done")
    \/ \E i \in PairIds : Update(i)
    \/ \E i \in PairIds : Increment(i)
    \/ \E i \in PairIds : microtasks = <<>> /\ Complete(i)
    \/ \E i \in PairIds : Tick(i)
    \/ Return

SpecPair == PairInit /\ [][PairNext]_vars

(***************************************************************************)
(* The rendering of a progress bar on its own: a Progress constructed with *)
(* a total and a current value and started, whose timer fires.             *)
(***************************************************************************)
BarInit ==
    /\ \E total \in 1..MaxTotal, current \in 0..MaxTotal, style \in ProgressStyles :
         objs = [i \in Ids |->
                   [ProgressConstructor([NoProgressOptions EXCEPT !.total = Num(total),
                                                                  !.current = Num(current),
                                                                  !.style = Str(style)])
                      EXCEPT !.isRunning = TRUE, !.intervalId = 1]]
    /\ timers = [i \in Ids |-> {1}]
    /\ microtasks = <<>>
    /\ written = <<>>
    /\ warned = <<>>
    /\ last = Step("none", "", 0, Undefined, "return", FALSE)

BarNext == (\E i \in Ids : Tick(i)) \/ Return

SpecBar == BarInit /\ [][BarNext]_vars

(***************************************************************************)
(* The encoder on its own: the caller holds a color string (last.arg, no   *)
(* call made yet) and style flags (last.styles) and calls getColorCode,    *)
(* getBackgroundColorCode or getStyleCode on them; `last` then records the *)
(* call and the string it returned.                                        *)
(***************************************************************************)
\* the inputs: # and three two-digit byte pairs, three comma-separated
\* components, the names of the table, and strings of none of these shapes
ColorStrings ==
    LET HexPairs ==
            { <<"0", "0">>, <<"0", "a">>, <<"1", "B">>, <<"7", "f">>, <<"A", "0">>,
              <<"c", "8">>, <<"F", "F">>, <<"f", "e">> }
        RGBComponents ==
            { <<"0">>, <<"1", "2", "8">>, <<"2", "5", "5">>, <<"3", "0", "0">>,
              <<"-", "1", "0">>, <<"1", "2", "7", ".", "5">>, <<"-", "0", ".", "5">>,
              <<"0", ".", "4", "9">>, <<"I", "n", "f", "i", "n", "i", "t", "y">>,
              <<"-", "I", "n", "f", "i", "n", "i", "t", "y">>, <<>>, <<" ", "7">>, <<"x">> }
    IN
    { <<"#">> \o r \o g \o b : r \in HexPairs, g \in HexPairs, b \in HexPairs }
    \cup { r \o <<",">> \o g \o <<",">> \o b :
             r \in RGBComponents, g \in RGBComponents, b \in RGBComponents }
    \cup { NAMED_COLORS[i].name : i \in 1..Len(NAMED_COLORS) }
    \cup { <<>>,
           <<"R", "e", "d">>,
           <<" ", "r", "e", "d">>,
           <<"n", "o", "t", "-", "a", "-", "c", "o", "l", "o", "r">>,
           <<"c", "o", "n", "s", "t", "r", "u", "c", "t", "o", "r">>,
           <<"t", "o", "S", "t", "r", "i", "n", "g">>,
           <<"_", "_", "p", "r", "o", "t", "o", "_", "_">> }
    \cup { <<"1", ",", "2">>,
           <<"1", ",", "2", ",", "3", ",", "x">>,
           <<"1", ",", "2", ",", "3", ",", "4">>,
           <<"r", "e", "d", ",", "b", "l", "u", "e">> }
    \cup { <<"#">>,
           <<"#", "f", "f", "f">>,
           <<"#", "1", "2", "3", "4", "5">>,
           <<"#", "1", "2", "3", "4", "5", "6", "7">>,
           <<"#", "g", "g", "0", "0", "0", "0">>,
           <<"#", "0", "0", "0", "0", "0", " ">>,
           <<"#", "1", ",", "2", ",", "3">>,
           <<"#", "1", "2", ",", "4", "5", "6">>,
           <<"r", "e", "d">>,
           <<"1", ",", "2", ",", "3">> }

\* the color strings with no style flag, and for one color every combination
\* of the style flags, each absent, false or true
EncoderInputs ==
    { [color |-> color,
       styles |-> [bold |-> Undefined, italic |-> Undefined, underline |-> Undefined]] :
        color \in ColorStrings }
    \cup { [color |-> Cyan, styles |-> styles] :
             styles \in [bold : {Undefined, Bool(FALSE), Bool(TRUE)},
                         italic : {Undefined, Bool(FALSE), Bool(TRUE)},
                         underline : {Undefined, Bool(FALSE), Bool(TRUE)}] }

\* if (styles.bold), if (styles.italic), if (styles.underline)
StyleFlags(styles) ==
    [bold |-> Truthy(styles.bold), italic |-> Truthy(styles.italic),
     underline |-> Truthy(styles.underline)]

ColorStep(op, color, styles, result) ==
    [op |-> op, kind |-> "", id |-> 0, arg |-> Str(color), styles |-> styles,
     outcome |-> "return", wasRunning |-> FALSE, result |-> result]

ColorInit ==
    /\ objs = [i \in Ids |-> NoObject]
    /\ timers = [i \in Ids |-> {}]
    /\ microtasks = <<>>
    /\ written = <<>>
    /\ warned = <<>>
    /\ \E input \in EncoderInputs : last = ColorStep("none", input.color, input.styles, <<>>)

CallGetColorCode ==
    /\ Idle
    /\ last' = ColorStep("getColorCode", last.arg.s, last.styles, getColorCode(last.arg.s))
    /\ UNCHANGED <<objs, timers, microtasks, written, warned>>

CallGetBackgroundColorCode ==
    /\ Idle
    /\ last' = ColorStep("getBackgroundColorCode", last.arg.s, last.styles,
                         getBackgroundColorCode(last.arg.s))
    /\ UNCHANGED <<objs, timers, microtasks, written, warned>>

CallGetStyleCode ==
    /\ Idle
    /\ last' = ColorStep("getStyleCode", last.arg.s, last.styles,
                         getStyleCode(StyleFlags(last.styles)))
    /\ UNCHANGED <<objs, timers, microtasks, written, warned>>

ColorNext == CallGetColorCode \/ CallGetBackgroundColorCode \/ CallGetStyleCode

SpecColors == ColorInit /\ [][ColorNext]_vars

(***************************************************************************)
(* Properties of the lifecycle.  A step is the pair of the state a call    *)
(* begins in (unprimed) and the state it leaves (primed, with the record   *)
(* `last` of the call and what it wrote).                                  *)
(***************************************************************************)
LineClear == <<CR, EraseLine>>

\* an in-progress frame: line clear, content, reset
IsFrame(data) == Len(data) > 2 /\ data[1] = CR /\ data[2] = EraseLine /\ data[Len(data)] = Reset

FrameWritten(w) == \E k \in 1..Len(w) : IsFrame(w[k])

Running(i) == Constructed(i) /\ objs[i].isRunning

Called(op, i) == last.op = op /\ last.id = i

\* C1: an instance has at most one registered timer in every state, and
\* start() on a running instance is a no-op: no second timer, no write, no
\* change of state (the text is kept whatever the argument), no error.
C1_SingleTimer ==
    [][\A i \in Ids :
         /\ Cardinality(timers'[i]) <= 1
         /\ (Called("start", i)' /\ Running(i))
              => /\ objs'[i] = objs[i]
                 /\ timers'[i] = timers[i]
                 /\ microtasks' = microtasks
                 /\ written' = <<>>
                 /\ last'.outcome = "return"]_vars

\* start("done") has returned on a running instance whose text is not "done"
C1_StartOnRunning ==
    /\ last.op = "start"
    /\ last.wasRunning
    /\ last.arg = Str("done")
    /\ objs[last.id].text # "done"
    /\ objs[last.id].isRunning
    /\ Cardinality(timers[last.id]) = 1

\* C2: in every state between operations the timer handle is set if and
\* only if the running flag is true, also after a render inside start() or
\* inside a tick has failed.
C2_TimerIffRunning ==
    \A i \in Ids :
        Constructed(i) => (objs[i].intervalId # NullTimer <=> objs[i].isRunning)

\* a render inside start() has failed
C2_StartFailed == last.op = "start" /\ ~last.wasRunning /\ last.outcome = "throw"

\* C3: stop() or a status call on a running instance leaves it not running
\* with its timer cancelled when the call returns, having written exactly the
\* line-clear sequence; and an instance writes an in-progress frame only
\* while running or in start(), and only start() makes it running.
C3_StopHalts ==
    [][\A i \in Ids :
         /\ (last'.op \in {"stop", "status"} /\ last'.id = i /\ Running(i))
              => /\ ~objs'[i].isRunning
                 /\ objs'[i].intervalId = NullTimer
                 /\ timers'[i] = {}
                 /\ last'.outcome = "return" => written' = <<LineClear>>
                 /\ last'.outcome = "throw" => written' = <<>>
         /\ (Constructed(i) /\ last'.id = i /\ FrameWritten(written'))
              => (objs[i].isRunning \/ last'.op = "start")
         /\ (Constructed(i) /\ ~objs[i].isRunning /\ objs'[i].isRunning)
              => Called("start", i)']_vars

\* a status call has stopped a running instance
C3_StatusOnRunning ==
    /\ last.op = "status"
    /\ last.wasRunning
    /\ last.outcome = "return"
    /\ written = <<LineClear>>
    /\ ~objs[last.id].isRunning

\* C4: stop() on an instance that is not running changes no state and
\* writes nothing.
C4_StopIdempotent ==
    [][\A i \in Ids :
         (Called("stop", i)' /\ Constructed(i) /\ ~objs[i].isRunning)
            => /\ objs'[i] = objs[i]
               /\ timers'[i] = timers[i]
               /\ microtasks' = microtasks
               /\ written' = <<>>
               /\ last'.outcome = "return"]_vars

\* stop() has returned on an instance that was not running
C4_StopOnIdle == last.op = "stop" /\ ~last.wasRunning /\ last.outcome = "return"

\* the fixed (color code, symbol) pairs of the status lines
StatusPair(kind) ==
    CASE kind = "succeed" -> <<"ESC[32m", "U+2714">>
      [] kind = "fail" -> <<"ESC[31m", "U+2716">>
      [] kind = "warn" -> <<"ESC[33m", "U+26A0">>
      [] kind = "info" -> <<"ESC[34m", "U+2139">>

\* C5: a status call stops the instance, and the line it then writes is the
\* colored symbol of its kind, a reset, a space, the message and a newline,
\* the message being the supplied text or, when none is supplied, the
\* display text.
C5_StatusLine ==
    [][\A i \in Ids :
         /\ (Called("status", i)' /\ Constructed(i)) => ~objs'[i].isRunning
         /\ (Called("statusLine", i)' /\ last'.outcome = "return")
              => written' =
                   << StatusPair(last'.kind)
                      \o <<Reset, " ",
                           IF last'.arg.t = "string" THEN last'.arg.s ELSE objs[i].text,
                           NL>> >>]_vars

\* C6: when the status line is written the instance is not running and has
\* no active timer, whatever the caller issued since the status call.
C6_StatusLineAfterHalt ==
    \A i \in Ids :
        Called("statusLine", i) => (~objs[i].isRunning /\ timers[i] = {})

\* the status line has been written while the instance runs with a timer
C6_StatusLineWhileRunning ==
    /\ last.op = "statusLine"
    /\ last.outcome = "return"
    /\ objs[last.id].isRunning
    /\ timers[last.id] # {}

\* C7: the current value of a Progress is a finite number within
\* [0, total] in every state, and total never changes.
C7_CurrentInRange ==
    [][\A i \in Ids :
         /\ IsProgress(i)'
              => /\ NumberIsFinite(objs'[i].current)
                 /\ NumberIsFinite(objs'[i].total)
                 /\ 0 <= objs'[i].current.n
                 /\ objs'[i].current.n <= objs'[i].total.n
         /\ IsProgress(i) => (IsProgress(i)' /\ objs'[i].total = objs[i].total)]_vars

\* an oversized update has been clamped to total, a negative one to 0
C7_Clamped ==
    /\ last.op \in {"update", "increment"}
    /\ NumberIsFinite(last.arg)
    /\ \/ last.arg.n > objs[last.id].total.n /\ objs[last.id].current = objs[last.id].total
       \/ last.arg.n < 0 /\ objs[last.id].current = Num(0) /\ last.op = "update"

\* the options new Progress rejects
Rejected(options) ==
    \/ ~(options.total.t = "number" /\ options.total.k = "fin" /\ options.total.n > 0)
    \/ /\ options.current.t # "undefined"
       /\ ~(options.current.t = "number" /\ options.current.k = "fin")
    \/ /\ options.style.t # "undefined"
       /\ ~(options.style.t = "string" /\ options.style.s \in {"bar", "blocks", "dots"})

\* C8: new Progress(options) throws, and yields no instance, exactly when
\* total is not a finite number above 0, or current is supplied and is not
\* a finite number, or style is supplied and is not bar, blocks or dots;
\* otherwise it yields an instance that is not running and has no timer.
C8_ConstructionFails ==
    \A i \in Ids :
        Called("new Progress", i)
          => /\ last.outcome = "throw" <=> Rejected(last.arg)
             /\ last.outcome = "throw" => ~Constructed(i)
             /\ last.outcome = "return"
                  => /\ IsProgress(i)
                     /\ ~objs[i].isRunning
                     /\ objs[i].intervalId = NullTimer
                     /\ timers[i] = {}

\* a construction with a valid total and current has failed on its style
C8_BadStyle ==
    /\ last.op = "new Progress"
    /\ last.outcome = "throw"
    /\ last.arg.total = Num(2)
    /\ last.arg.current = Num(1)
    /\ last.arg.style = Str("wave")

\* C9: with a finite current outside [0, total] construction succeeds and
\* the initial current is the nearest bound; with current omitted it is 0.
C9_InitialCurrent ==
    \A i \in Ids :
        (/\ Called("new Progress", i)
         /\ NumberIsFinite(last.arg.total) /\ last.arg.total.n > 0
         /\ last.arg.style.t = "undefined" \/ last.arg.style \in {Str("bar"), Str("dots")})
          => /\ (NumberIsFinite(last.arg.current) /\ last.arg.current.n < 0)
                  => (IsProgress(i) /\ objs[i].current = Num(0))
             /\ (NumberIsFinite(last.arg.current)
                 /\ last.arg.current.n > last.arg.total.n)
                  => (IsProgress(i) /\ objs[i].current = last.arg.total)
             /\ last.arg.current.t = "undefined"
                  => (IsProgress(i) /\ objs[i].current = Num(0))

\* a construction with current above total has succeeded
C9_Oversized ==
    /\ last.op = "new Progress"
    /\ last.outcome = "return"
    /\ NumberIsFinite(last.arg.current)
    /\ last.arg.current.n > last.arg.total.n
    /\ objs[last.id].current = last.arg.total

\* C10: update(v) and increment(v) with v NaN or an infinity return without
\* an error, leave the instance state unchanged and write nothing, whether
\* the instance is running or not.
C10_NonFiniteIgnored ==
    [][\A i \in Ids :
         (last'.op \in {"update", "increment"} /\ last'.id = i
          /\ last'.arg \in {NaN, PosInf, NegInf})
            => /\ last'.outcome = "return"
               /\ objs'[i] = objs[i]
               /\ timers'[i] = timers[i]
               /\ microtasks' = microtasks
               /\ written' = <<>>]_vars

\* increment(NaN) has returned on a running instance
C10_NaNWhileRunning ==
    /\ last.op = "increment"
    /\ last.arg = NaN
    /\ last.wasRunning
    /\ last.outcome = "return"
    /\ warned # <<>>

(***************************************************************************)
(* Properties of update, increment and complete.                           *)
(***************************************************************************)
\* max(0, min(total, v)) on the integers
ClampInt(v, total) == IF v < 0 THEN 0 ELSE IF v > total THEN total ELSE v

Shown(i) == objs[i].options.show

\* what a call that renders once has written: one frame, or nothing when the
\* write failed
OneFrame(w, outcome) ==
    IF outcome = "return" THEN Len(w) = 1 /\ IsFrame(w[1]) ELSE w = <<>>

\* update(v) with v finite has set current to max(0, min(total, v)) and has
\* changed nothing else
UpdateSetsCurrent(i) ==
    /\ objs'[i] = [objs[i] EXCEPT !.current = Num(ClampInt(last'.arg.n, objs[i].total.n))]
    /\ timers'[i] = timers[i]
    /\ microtasks' = microtasks

\* C11 as stated: update(v) with v finite sets current to max(0, min(total, v));
\* a running instance then writes one frame, an instance that is not running
\* writes nothing and changes only current.
C11_UpdateAsStated ==
    [][\A i \in Ids :
         (Called("update", i)' /\ NumberIsFinite(last'.arg))
            => /\ UpdateSetsCurrent(i)
               /\ objs[i].isRunning => OneFrame(written', last'.outcome)
               /\ ~objs[i].isRunning => (written' = <<>> /\ last'.outcome = "return")]_vars

\* C11, amended: update(v) with v finite sets current to max(0, min(total, v));
\* a running instance with show=true then writes one frame; an instance that
\* is not running, or has show=false, writes nothing; only current changes.
C11_Update ==
    [][\A i \in Ids :
         (Called("update", i)' /\ NumberIsFinite(last'.arg))
            => /\ UpdateSetsCurrent(i)
               /\ (objs[i].isRunning /\ Shown(i)) => OneFrame(written', last'.outcome)
               /\ ~(objs[i].isRunning /\ Shown(i))
                    => (written' = <<>> /\ last'.outcome = "return")]_vars

\* update(MaxNum) on a running, shown instance has clamped and written a frame
C11_UpdateWhileRunning ==
    /\ last.op = "update"
    /\ last.arg = Num(MaxNum)
    /\ last.wasRunning
    /\ objs[last.id].options.show
    /\ objs[last.id].current = objs[last.id].total
    /\ Len(written) = 1

\* the step is what the operation result m describes
StepIs(i, m) ==
    /\ objs'[i] = m.o
    /\ timers'[i] = m.t
    /\ written' = m.w
    /\ warned' = m.warns
    /\ last'.outcome = (IF m.thrown THEN "throw" ELSE "return")

\* increment(a) with a finite is update(current + a), the same write failing
\* or none
IncrementIsUpdate(i) ==
    (Called("increment", i)' /\ NumberIsFinite(last'.arg))
       => \E failAt \in FailPoints(1) :
             StepIs(i, ProgressUpdate(Begin(i, failAt), NumAdd(objs[i].current, last'.arg)))

\* current after increment(-x) on the instance as the step leaves it
BackFrom(i, x) ==
    ProgressIncrement([Begin(i, 0) EXCEPT !.o = objs'[i]], Num(-x)).o.current

\* the step is increment(x) with current + x within the magnitudes of the model
IncrementBy(i) ==
    /\ Called("increment", i)'
    /\ NumberIsFinite(last'.arg)
    /\ objs[i].current.n + last'.arg.n \in (-MaxNum)..MaxNum

InRange(v, total) == 0 <= v /\ v <= total

\* C12 as stated: increment(a) with a finite is update(current + a);
\* increment(x); increment(-x) restores current when 0 <= current + x <= total
\* and otherwise leaves current at the bound current + x was clamped to.
C12_IncrementAsStated ==
    [][\A i \in Ids :
         /\ IncrementIsUpdate(i)
         /\ IncrementBy(i)
              => BackFrom(i, last'.arg.n) =
                   IF InRange(objs[i].current.n + last'.arg.n, objs[i].total.n)
                   THEN objs[i].current
                   ELSE Num(ClampInt(objs[i].current.n + last'.arg.n, objs[i].total.n))]_vars

\* C12, amended: increment(a) with a finite is update(current + a);
\* increment(x); increment(-x) restores current when 0 <= current + x <= total
\* and otherwise leaves clamp(clamp(current + x) - x), the second increment
\* being applied to the clamped value.
C12_Increment ==
    [][\A i \in Ids :
         /\ IncrementIsUpdate(i)
         /\ IncrementBy(i)
              => BackFrom(i, last'.arg.n) =
                   IF InRange(objs[i].current.n + last'.arg.n, objs[i].total.n)
                   THEN objs[i].current
                   ELSE Num(ClampInt(
                            ClampInt(objs[i].current.n + last'.arg.n, objs[i].total.n)
                              - last'.arg.n,
                            objs[i].total.n))]_vars

\* increment(1) has been clamped at total, where increment(-1) does not
\* restore the current it started from
C12_ClampedIncrement ==
    /\ last.op = "increment"
    /\ last.arg = Num(1)
    /\ last.outcome = "return"
    /\ objs[last.id].current = objs[last.id].total
    /\ ProgressIncrement(Begin(last.id, 0), Num(-1)).o.current # objs[last.id].current

\* the success line for the message
SuccessLine(message) == <<"ESC[32m", "U+2714", Reset, " ", message, NL>>

\* C13: complete() is update(total) followed by succeed(): when it returns
\* current = total, the instance is not running and has no timer, and the
\* one success line (green check mark, display text) is what its suspended
\* continuation writes, after every other write of the call.
C13_Complete ==
    [][\A i \in Ids :
         /\ Called("complete", i)'
              => /\ \E failAt \in FailPoints(2) :
                       StepIs(i, ProgressStatus(
                                     ProgressUpdate(Begin(i, failAt), objs[i].total),
                                     "succeed", Undefined))
                 /\ \A k \in 1..Len(written') : written'[k][Len(written'[k])] # NL
                 /\ last'.outcome = "return"
                      => /\ objs'[i].current = objs[i].total
                         /\ objs'[i].text = objs[i].text
                         /\ ~objs'[i].isRunning
                         /\ objs'[i].intervalId = NullTimer
                         /\ timers'[i] = {}
                         /\ microtasks' = Append(microtasks,
                                [id |-> i, kind |-> "succeed", text |-> Undefined])
         /\ (Called("statusLine", i)' /\ last'.kind = "succeed"
             /\ last'.arg = Undefined /\ last'.outcome = "return")
              => /\ written' = <<SuccessLine(objs[i].text)>>
                 /\ objs'[i] = objs[i]]_vars

\* complete() has returned on a running, shown instance below its total
C13_CompleteWhileRunning ==
    /\ last.op = "complete"
    /\ last.wasRunning
    /\ last.outcome = "return"
    /\ objs[last.id].options.show
    /\ objs[last.id].current = objs[last.id].total
    /\ Len(written) = 2
    /\ Len(microtasks) = 1

(***************************************************************************)
(* Properties of start, updateText and render.                             *)
(***************************************************************************)
\* render writes for the instance: show is true and a spinner has frames
Renders(i) == objs[i].options.show /\ (IsSpinner(i) => Len(objs[i].options.spinner) > 0)

\* the glyph of a spinner frame: what precedes the text part and the reset
GlyphOf(frame, text) == frame[Len(frame) - 1 - (IF text # "" THEN 2 ELSE 0)]

\* C14: start() on an instance that is not running sets running=true, writes
\* exactly one frame (when show is true and a spinner has frames; nothing
\* otherwise) and then registers the one timer, none when the frame failed;
\* a spinner starts from frameIndex 0, so that the frame shows frames[0].
C14_Start ==
    [][\A i \in Ids :
         (Called("start", i)' /\ Constructed(i) /\ ~objs[i].isRunning)
            => /\ objs'[i].isRunning
               /\ last'.outcome = "throw"
                    => (Renders(i) /\ written' = <<>> /\ timers'[i] = {}
                        /\ objs'[i].intervalId = NullTimer)
               /\ last'.outcome = "return"
                    => /\ Cardinality(timers'[i]) = 1
                       /\ objs'[i].intervalId \in timers'[i]
                       /\ Renders(i) => (Len(written') = 1 /\ IsFrame(written'[1]))
                       /\ ~Renders(i) => written' = <<>>
                       /\ IsSpinner(i)
                            => IF Renders(i)
                               THEN /\ objs'[i].frameIndex = 1
                                    /\ GlyphOf(written'[1], objs'[i].text)
                                         = objs[i].options.spinner[1]
                               ELSE objs'[i].frameIndex = 0]_vars

\* a spinner with two frames has been started and shows frames[0]
C14_SpinnerStarted ==
    /\ last.op = "start"
    /\ ~last.wasRunning
    /\ last.outcome = "return"
    /\ IsSpinner(last.id)
    /\ objs[last.id].options.spinner = <<"-", "+">>
    /\ objs[last.id].options.show
    /\ objs[last.id].frameIndex = 1
    /\ Len(written) = 1
    /\ \E k \in 1..Len(written[1]) : written[1][k] = "-"

\* the frame shows the text t: " " and t before the reset, or no text part
ShowsText(frame, t) ==
    IF t = "" THEN frame[Len(frame) - 1] # ""
    ELSE frame[Len(frame) - 1] = t /\ frame[Len(frame) - 2] = " "

\* updateText(t) has replaced the text and nothing else but a spinner's
\* frameIndex; start() and a status call without argument use the display text
TextReplaced(i) ==
    /\ Called("updateText", i)'
         => /\ objs'[i].text = last'.arg.s
            /\ IF IsSpinner(i)
               THEN [objs'[i] EXCEPT !.frameIndex = 0] =
                      [objs[i] EXCEPT !.text = last'.arg.s, !.frameIndex = 0]
               ELSE objs'[i] = [objs[i] EXCEPT !.text = last'.arg.s]
            /\ timers'[i] = timers[i]
    /\ (Called("start", i)' /\ last'.arg = Undefined) => objs'[i].text = objs[i].text
    /\ (Called("statusLine", i)' /\ last'.arg = Undefined /\ last'.outcome = "return")
         => written'[1][Len(written'[1]) - 1] = objs[i].text

\* C15 as stated: updateText(t) always replaces the display text with t; a
\* running instance writes one frame showing t, an instance that is not
\* running writes nothing, and the next start() or status call without
\* argument uses t.
C15_UpdateTextAsStated ==
    [][\A i \in Ids :
         /\ TextReplaced(i)
         /\ (Called("updateText", i)' /\ objs[i].isRunning)
              => /\ OneFrame(written', last'.outcome)
                 /\ last'.outcome = "return" => ShowsText(written'[1], last'.arg.s)
         /\ (Called("updateText", i)' /\ ~objs[i].isRunning)
              => (written' = <<>> /\ last'.outcome = "return")]_vars

\* C15, amended: updateText(t) always replaces the display text with t; a
\* running instance that renders (show=true and, for a spinner, a non-empty
\* frame sequence) writes one frame showing t, any other instance writes
\* nothing, and the next start() or status call without argument uses t.
C15_UpdateText ==
    [][\A i \in Ids :
         /\ TextReplaced(i)
         /\ (Called("updateText", i)' /\ objs[i].isRunning /\ Renders(i))
              => /\ OneFrame(written', last'.outcome)
                 /\ last'.outcome = "return" => ShowsText(written'[1], last'.arg.s)
         /\ (Called("updateText", i)' /\ ~(objs[i].isRunning /\ Renders(i)))
              => (written' = <<>> /\ last'.outcome = "return")]_vars

\* updateText("done") has written a frame of a running spinner
C15_TextShown ==
    /\ last.op = "updateText"
    /\ last.arg = Str("done")
    /\ last.wasRunning
    /\ IsSpinner(last.id)
    /\ Len(written) = 1
    /\ written[1][Len(written[1]) - 1] = "done"

\* frames[frameIndex mod n] of the spinner as the step finds it
FrameDue(i) ==
    objs[i].options.spinner[(objs[i].frameIndex % Len(objs[i].options.spinner)) + 1]

\* C16: for a spinner with show=true and n > 0 frames, a render of the running
\* spinner (a tick, updateText) writes frames[frameIndex mod n] and then adds
\* 1 to frameIndex, start() sets frameIndex to the number of frames it wrote
\* (frames[0]), and no other step writes a frame or changes frameIndex: so
\* frameIndex counts the frames written since the last start() and the k-th
\* of them is frames[(k-1) mod n].
C16_FrameIndex ==
    [][\A i \in Ids :
         (IsSpinner(i) /\ Renders(i) /\ last'.id = i)
            => /\ (last'.op \in {"tick", "updateText"} /\ objs[i].isRunning)
                    => IF last'.outcome = "return"
                       THEN /\ Len(written') = 1
                            /\ IsFrame(written'[1])
                            /\ GlyphOf(written'[1], objs'[i].text) = FrameDue(i)
                            /\ objs'[i].frameIndex = objs[i].frameIndex + 1
                       ELSE written' = <<>> /\ objs'[i].frameIndex = objs[i].frameIndex
               /\ (last'.op = "start" /\ ~objs[i].isRunning)
                    => /\ objs'[i].frameIndex = Len(written')
                       /\ written' # <<>>
                            => GlyphOf(written'[1], objs'[i].text)
                                 = objs[i].options.spinner[1]
               /\ ~(last'.op \in {"tick", "updateText"} /\ objs[i].isRunning)
                  /\ ~(last'.op = "start" /\ ~objs[i].isRunning)
                    => (~FrameWritten(written')
                        /\ objs'[i].frameIndex = objs[i].frameIndex)]_vars

\* a tick has written the third frame of a spinner of two frames: frames[0] again
C16_Wrapped ==
    /\ last.op = "tick"
    /\ last.outcome = "return"
    /\ IsSpinner(last.id)
    /\ objs[last.id].options.spinner = <<"-", "+">>
    /\ objs[last.id].frameIndex = 3
    /\ Len(written) = 1
    /\ GlyphOf(written[1], objs[last.id].text) = "-"

(***************************************************************************)
(* Properties of the configurations that render nothing.                   *)
(***************************************************************************)
NoFrames(i) == IsSpinner(i) /\ Len(objs[i].options.spinner) = 0

\* the step leaves the instance, its timers and the queue as they were,
\* writes nothing and returns
NoOp(i) ==
    /\ objs'[i] = objs[i]
    /\ timers'[i] = timers[i]
    /\ microtasks' = microtasks
    /\ written' = <<>>
    /\ last'.outcome = "return"

\* the step leaves the instance not running, its timer released
Halted(i) ==
    /\ ~objs'[i].isRunning
    /\ objs'[i].intervalId = NullTimer
    /\ timers'[i] = {}

\* the step leaves the instance running with one timer, having written nothing
StartedSilently(i) ==
    /\ objs'[i].isRunning
    /\ Cardinality(timers'[i]) = 1
    /\ objs'[i].intervalId \in timers'[i]
    /\ written' = <<>>
    /\ last'.outcome = "return"

C18_Hidden ==
    [][\A i \in Ids :
         (Constructed(i) /\ ~Shown(i) /\ last'.id = i)
            => /\ ~FrameWritten(written')
               /\ last'.op \in {"tick", "update", "increment", "updateText"}
                    => (written' = <<>> /\ last'.outcome = "return")
               /\ (last'.op = "start" /\ ~objs[i].isRunning) => StartedSilently(i)
               /\ (last'.op \in {"stop", "status"} /\ objs[i].isRunning)
                    => /\ Halted(i)
                       /\ last'.outcome = "return" => written' = <<LineClear>>
               /\ (last'.op = "statusLine" /\ last'.outcome = "return")
                    => /\ Len(written') = 1
                       /\ written'[1] = StatusPair(last'.kind)
                            \o <<Reset, " ", written'[1][Len(written'[1]) - 1], NL>>]_vars

\* update(1) has changed current of a running instance with show=false
\* and has written nothing
C18_HiddenUpdate ==
    /\ last.op = "update"
    /\ last.arg = Num(1)
    /\ last.wasRunning
    /\ objs[last.id].isRunning
    /\ ~objs[last.id].options.show
    /\ objs[last.id].current = Num(1)
    /\ written = <<>>

(***************************************************************************)
(* The named animation styles, as the declaration of SpinnerAnimationStyle *)
(* documents them.                                                         *)
(***************************************************************************)
NamedPattern(style) ==
    CASE style = "corners" -> <<"U+2502", "U+2524", "U+2518", "U+2514",
                                "U+2510", "U+250C", "U+2534", "U+252C">>
      [] style = "arrows" -> <<"U+2190", "U+2196", "U+2191", "U+2197",
                               "U+2192", "U+2198", "U+2193", "U+2199">>
      [] style = "triangles" -> <<"U+25E2", "U+25E3", "U+25E4", "U+25E5">>
      [] style = "circles" -> <<"U+25D0", "U+25D1", "U+25D2", "U+25D3">>
      [] style = "stars" -> <<"U+2605", "U+2606", "U+272F", "U+2730">>
      [] OTHER -> SpinnerDefaultOptions.spinner.a

\* C19: a spinner constructed with a named style and no custom frame array
\* has the glyph sequence of that style as its frames (render draws them
\* from options.spinner); an unknown or omitted style gives the dots sequence.
C19_NamedStyle ==
    \A i \in Ids :
        (Called("new Spinner", i) /\ last.arg.spinner = Undefined)
          => objs[i].options.spinner = NamedPattern(Coalesce(last.arg.style, Str("dots")).s)

\* a spinner of style arrows has been started and shows the first dots glyph
C19_ArrowsShowDots ==
    /\ last.op = "start"
    /\ last.outcome = "return"
    /\ IsSpinner(last.id)
    /\ objs[last.id].options.style = "arrows"
    /\ Len(written) = 1
    /\ GlyphOf(written[1], objs[last.id].text) = "f0"

(***************************************************************************)
(* Properties of the encoder.                                              *)
(***************************************************************************)
\* the value of a hexadecimal digit, upper or lower case
HexDigitValue(c) == CHOOSE v \in 0..15 : HexChars[v + 1] = c \/ HexUpper[v + 1] = c

\* # followed by exactly 6 hexadecimal digits
IsHexColor(color) ==
    /\ Len(color) = 7
    /\ color[1] = "#"
    /\ \A k \in 2..7 : \E v \in 0..15 : HexChars[v + 1] = color[k] \/ HexUpper[v + 1] = color[k]

\* the decimal value of the byte pair at positions k, k + 1
ByteAt(color, k) == 16 * HexDigitValue(color[k]) + HexDigitValue(color[k + 1])

\* the decimal digits of a byte
Decimal(n) ==
    IF n < 10 THEN <<Digits[n + 1]>>
    ELSE IF n < 100 THEN <<Digits[(n \div 10) + 1], Digits[(n % 10) + 1]>>
    ELSE <<Digits[(n \div 100) + 1], Digits[((n \div 10) % 10) + 1], Digits[(n % 10) + 1]>>

\* ESC[38;2;R;G;Bm or ESC[48;2;R;G;Bm
TrueColor(prefix, r, g, b) ==
    <<prefix>> \o Decimal(r) \o <<";">> \o Decimal(g) \o <<";">> \o Decimal(b) \o <<"m">>

\* C20: for # followed by exactly 6 hexadecimal digits of either case,
\* getColorCode returns ESC[38;2;R;G;Bm and getBackgroundColorCode returns
\* ESC[48;2;R;G;Bm, R, G, B being the decimal values of the three byte pairs.
C20_HexColor ==
    IsHexColor(last.arg.s)
      => /\ last.op = "getColorCode"
              => last.result = TrueColor("ESC[38;2;", ByteAt(last.arg.s, 2),
                                         ByteAt(last.arg.s, 4), ByteAt(last.arg.s, 6))
         /\ last.op = "getBackgroundColorCode"
              => last.result = TrueColor("ESC[48;2;", ByteAt(last.arg.s, 2),
                                         ByteAt(last.arg.s, 4), ByteAt(last.arg.s, 6))

\* getBackgroundColorCode('#FF0a7f') has returned ESC[48;2;255;10;127m
C20_MixedCase ==
    /\ last.op = "getBackgroundColorCode"
    /\ last.arg.s = <<"#", "F", "F", "0", "a", "7", "f">>
    /\ last.result = <<"ESC[48;2;", "2", "5", "5", ";", "1", "0", ";", "1", "2", "7", "m">>

IsRGBColor(color) == Includes(color, ",") /\ ~StartsWith(color, "#")

\* the k-th comma-separated component as a number: NaN when it is missing
ComponentOf(color, k) == NumberAt(Split(color, ","), k)

Saturated(v) ==
    IF v.k = "inf" THEN (IF v.n > 0 THEN 255 ELSE 0)
    ELSE IF v.k = "frac"
    THEN (IF v.n + (IF v.half THEN 1 ELSE 0) < 0 THEN 0
          ELSE IF v.n + (IF v.half THEN 1 ELSE 0) > 255 THEN 255
          ELSE v.n + (IF v.half THEN 1 ELSE 0))
    ELSE IF v.n < 0 THEN 0 ELSE IF v.n > 255 THEN 255 ELSE v.n

\* the three components of the color all parse to numbers
ParsesToNumbers(color) == \A k \in 1..3 : ComponentOf(color, k) # NaN

\* C23: for an RGB string whose three components parse to numbers, each
\* component of the escape sequence is max(0, min(255, round(v))), hence in
\* 0..255, and the foreground and the background carry the same triple.
C23_Saturates ==
    (IsRGBColor(last.arg.s) /\ ParsesToNumbers(last.arg.s))
      => /\ last.op = "getColorCode"
              => last.result = TrueColor("ESC[38;2;", Saturated(ComponentOf(last.arg.s, 1)),
                                         Saturated(ComponentOf(last.arg.s, 2)),
                                         Saturated(ComponentOf(last.arg.s, 3)))
         /\ last.op = "getBackgroundColorCode"
              => last.result = TrueColor("ESC[48;2;", Saturated(ComponentOf(last.arg.s, 1)),
                                         Saturated(ComponentOf(last.arg.s, 2)),
                                         Saturated(ComponentOf(last.arg.s, 3)))

\* getColorCode('300,-10,127.5') has returned ESC[38;2;255;0;128m
C23_OutOfRange ==
    /\ last.op = "getColorCode"
    /\ last.arg.s = <<"3", "0", "0", ",", "-", "1", "0", ",", "1", "2", "7", ".", "5">>
    /\ last.result = <<"ESC[38;2;", "2", "5", "5", ";", "0", ";", "1", "2", "8", "m">>

\* the color is one of the 25 names of the table
IsTableName(color) == \E i \in 1..Len(NAMED_COLORS) : NAMED_COLORS[i].name = color

\* the entry of a name in a table
EntryOf(table, color) == table[CHOOSE i \in 1..Len(table) : table[i].name = color].code

\* C24: for a color that does not start with #, has no comma and is not one
\* of the 25 names, getColorCode returns what getColorCode('cyan') returns and
\* getBackgroundColorCode returns the empty string; for each of the 25 names
\* both return the entry of the name in their table.
C24_NamedColor ==
    (~StartsWith(last.arg.s, "#") /\ ~Includes(last.arg.s, ","))
      => /\ (last.op = "getColorCode" /\ IsTableName(last.arg.s))
              => last.result = EntryOf(NAMED_COLORS, last.arg.s)
         /\ (last.op = "getBackgroundColorCode" /\ IsTableName(last.arg.s))
              => last.result = EntryOf(NAMED_BACKGROUND_COLORS, last.arg.s)
         /\ (last.op = "getColorCode" /\ ~IsTableName(last.arg.s))
              => last.result = <<"ESC[36m">>
         /\ (last.op = "getBackgroundColorCode" /\ ~IsTableName(last.arg.s))
              => last.result = <<>>

\* getBackgroundColorCode('constructor') has returned a member inherited from
\* Object.prototype, not the empty string
C24_InheritedKey ==
    /\ last.op = "getBackgroundColorCode"
    /\ last.arg.s = <<"c", "o", "n", "s", "t", "r", "u", "c", "t", "o", "r">>
    /\ last.result = InheritedMember

\* the flag was given and is true
FlagSet(flag) == flag = Bool(TRUE)

\* C25: for each combination of the bold, italic and underline flags,
\* getStyleCode returns the codes of exactly the true flags in the order bold
\* (ESC[1m), italic (ESC[3m), underline (ESC[4m); an absent or false flag
\* contributes nothing and no true flag gives the empty string.
C25_StyleCode ==
    last.op = "getStyleCode"
      => /\ last.result = (IF FlagSet(last.styles.bold) THEN <<"ESC[1m">> ELSE <<>>)
                           \o (IF FlagSet(last.styles.italic) THEN <<"ESC[3m">> ELSE <<>>)
                           \o (IF FlagSet(last.styles.underline) THEN <<"ESC[4m">> ELSE <<>>)
         /\ (\A f \in {last.styles.bold, last.styles.italic, last.styles.underline} : ~FlagSet(f))
              => last.result = <<>>

\* getStyleCode({ bold: true, italic: false, underline: true }) has returned
\* ESC[1m ESC[4m
C25_BoldUnderline ==
    /\ last.op = "getStyleCode"
    /\ last.styles = [bold |-> Bool(TRUE), italic |-> Bool(FALSE), underline |-> Bool(TRUE)]
    /\ last.result = <<"ESC[1m", "ESC[4m">>

(***************************************************************************)
(* Properties of two instances.                                            *)
(***************************************************************************)
\* C26: instances are independent: a step changes the state of an instance
\* (its text, running flag, timer field, frame index, current) and its
\* registered timers only if it is an operation or a timer tick on that
\* instance.
C26_Independent ==
    [][\A j \in PairIds :
         (objs'[j] # objs[j] \/ timers'[j] # timers[j]) => last'.id = j]_vars

\* both instances were running, each with its own single timer, and stop()
\* on the first has left the second running with its timer
C26_OneStopped ==
    /\ last.op = "stop"
    /\ last.id = 1
    /\ last.wasRunning
    /\ ~objs[1].isRunning /\ timers[1] = {}
    /\ objs[2].isRunning /\ Cardinality(timers[2]) = 1

(***************************************************************************)
(* Properties of what is written.                                          *)
(***************************************************************************)
\* the token has a newline in it
HasNewline(token) == token \in {NL, TwoLines}

\* a status line: it ends with a newline
EndsWithNewline(data) == Len(data) > 0 /\ data[Len(data)] = NL

\* the glyph of a spinner or the bar and percentage of a progress bar
FrameBodies(o) ==
    IF o.cls = "Spinner" THEN { <<o.options.spinner[k]>> : k \in 1..Len(o.options.spinner) }
    ELSE { VisualBar(o.options.style, Percentage(o.current, o.total)) \o <<" ">>
           \o ToFixed1(Percentage(o.current, o.total)) \o <<"%">> }

\* carriage return, erase, style codes, background code, foreground code,
\* glyph or bar, text, reset
OrderedFrame(o, data) ==
    \E body \in FrameBodies(o) :
        data = <<CR, EraseLine>>
               \o getStyleCode([bold |-> o.options.bold, italic |-> o.options.italic,
                                underline |-> o.options.underline])
               \o (IF o.options.backgroundColor = <<>> THEN <<>>
                   ELSE getBackgroundColorCode(o.options.backgroundColor))
               \o (IF o.options.color = <<>> THEN <<>> ELSE getColorCode(o.options.color))
               \o body
               \o (IF o.text = "" THEN <<>> ELSE <<" ", o.text>>)
               \o <<Reset>>

\* C27 as stated: every write of the call in progress is a frame (carriage
\* return and erase, ..., reset, no newline in it), the bare line clear, or a
\* line that ends with a newline.
C27_ShapesAsStated ==
    \A k \in 1..Len(written) :
        \/ written[k] = LineClear
        \/ EndsWithNewline(written[k])
        \/ /\ IsFrame(written[k])
           /\ \A p \in 1..Len(written[k]) : ~HasNewline(written[k][p])

\* C27: every write of the call in progress is the bare line clear, a line
\* that ends with a newline, or a frame: carriage return and erase, style
\* codes, background code, foreground code, glyph or bar, the text, reset,
\* with no newline but those of the display text or the glyph.
C27_Shapes ==
    \A k \in 1..Len(written) :
        \/ written[k] = LineClear
        \/ EndsWithNewline(written[k])
        \/ /\ IsFrame(written[k])
           /\ OrderedFrame(objs[last.id], written[k])
           /\ \A p \in 1..Len(written[k]) : written[k][p] # NL

\* a running spinner has written a frame whose text has two lines
C27_TwoLineFrame ==
    /\ last.op = "tick"
    /\ Len(written) = 1
    /\ IsFrame(written[1])
    /\ written[1][Len(written[1]) - 1] = TwoLines

(***************************************************************************)
(* Properties of the bar.                                                  *)
(***************************************************************************)
\* the (filled, empty) glyphs of a style
BarGlyphs(style) ==
    CASE style = "bar" -> <<"U+2588", "U+2591">>
      [] style = "blocks" -> <<"U+25A3", "U+25A2">>
      [] style = "dots" -> <<"U+25CF", "U+25CB">>

\* round(percentage / 100 * 20) for percentage = clamp(current / total * 100, 0, 100):
\* the integer f with f <= 20 * current / total + 1/2 < f + 1
FilledOf(current, total) ==
    CHOOSE f \in 0..20 :
        /\ 2 * f * total <= 40 * current + total
        /\ 40 * current + total < 2 * (f + 1) * total

\* the positions of a glyph in the data
PositionsOf(data, glyph) == {p \in 1..Len(data) : data[p] = glyph}

\* the frame shows the percentage text before its percent sign
ShowsPercent(data, digits) ==
    \E p \in 1..Len(data) :
        /\ data[p] = "%"
        /\ p > Len(digits) + 1
        /\ SubSeq(data, p - Len(digits) - 1, p - 1) = <<" ">> \o digits

\* the frame of a progress bar of the style, at current of total
BarOf(data, style, current, total) ==
    /\ Cardinality(PositionsOf(data, BarGlyphs(style)[1])) = FilledOf(current, total)
    /\ Cardinality(PositionsOf(data, BarGlyphs(style)[1]))
         + Cardinality(PositionsOf(data, BarGlyphs(style)[2])) = 20
    /\ \A p \in PositionsOf(data, BarGlyphs(style)[1]) :
         \A q \in PositionsOf(data, BarGlyphs(style)[2]) : p < q
    /\ current = 0 => (FilledOf(current, total) = 0 /\ ShowsPercent(data, <<"0", ".", "0">>))
    /\ current = total
         => (FilledOf(current, total) = 20 /\ ShowsPercent(data, <<"1", "0", "0", ".", "0">>))

\* C28: the rendered bar has exactly 20 glyphs, round(percentage / 100 * 20)
\* of them the filled glyph of the style and the rest the empty glyph, where
\* percentage = clamp(current / total * 100, 0, 100); current = 0 renders 0
\* filled and 0.0%, current = total renders 20 filled and 100.0%.
C28_Bar ==
    \A k \in 1..Len(written) :
        IsFrame(written[k])
          => BarOf(written[k], objs[last.id].options.style,
                   objs[last.id].current.n, objs[last.id].total.n)

\* a bar at 1 of 8 has been rendered: 2.5 of 20 rounds to 3 filled glyphs
C28_RoundsUp ==
    /\ last.op = "tick"
    /\ objs[last.id].current = Num(1) /\ objs[last.id].total = Num(8)
    /\ Len(written) = 1
    /\ Cardinality(PositionsOf(written[1], "U+2588")) = 3
    /\ Cardinality(PositionsOf(written[1], "U+2591")) = 17

(***************************************************************************)
(* Properties of the outcomes.                                             *)
(***************************************************************************)
\* C29: after construction no operation of a Spinner or Progress (start,
\* stop, a status call and its continuation, updateText, update, increment,
\* complete, a timer tick) ends in an error; only the construction of a
\* Progress can raise.
C29_NoError == last.op # "new Progress" => last.outcome = "return"

\* the render of a timer tick has raised the error of its terminal write
C29_TickThrows ==
    /\ last.op = "tick"
    /\ last.outcome = "throw"
    /\ objs[last.id].isRunning

(***************************************************************************)
(* Properties of the display text.                                         *)
(***************************************************************************)
\* C30: start(text) on an instance that is not running sets the display text
\* to every supplied string, the empty string included; only an omitted
\* argument leaves the display text as it was.
C30_StartText ==
    [][\A i \in Ids :
         (Called("start", i)' /\ Constructed(i) /\ ~objs[i].isRunning)
            => objs'[i].text = (IF last'.arg.t = "string" THEN last'.arg.s ELSE objs[i].text)]_vars

\* start('') on an instance that was not running has left a display text
\* that is not empty
C30_EmptyTextIgnored ==
    /\ last.op = "start"
    /\ last.arg = Str("")
    /\ ~last.wasRunning
    /\ objs[last.id].isRunning
    /\ objs[last.id].text # ""

\* the message of a status line: what stands before its newline
MessageOf(line) == line[Len(line) - 1]

\* C31: the message of a status line is the supplied text for every supplied
\* string, the empty string included; the display text is the message only
\* when the argument is omitted.
C31_SuppliedText ==
    [][\A i \in Ids :
         (Called("statusLine", i)' /\ last'.outcome = "return")
            => /\ Len(written') = 1
               /\ MessageOf(written'[1])
                    = (IF last'.arg.t = "string" THEN last'.arg.s ELSE objs[i].text)]_vars

\* the line of a status call made with the text '' shows a display text that
\* is not empty
C31_EmptyTextReplaced ==
    /\ last.op = "statusLine"
    /\ last.arg = Str("")
    /\ Len(written) = 1
    /\ MessageOf(written[1]) = objs[last.id].text
    /\ objs[last.id].text # ""

C33_StatusCalls ==
    [][\A i \in Ids :
         /\ (Called("status", i)' /\ Constructed(i))
              => /\ objs'[i].text = objs[i].text
                 /\ IsProgress(i) => objs'[i].current = objs[i].current
                 /\ IsSpinner(i) => objs'[i].frameIndex = objs[i].frameIndex
                 /\ ~objs[i].isRunning
                      => (written' = <<>> /\ last'.outcome = "return" /\ objs'[i] = objs[i])
                 /\ last'.outcome = "return"
                      => (Len(microtasks') = Len(microtasks) + 1
                          /\ microtasks'[Len(microtasks')].id = i)
         /\ Called("statusLine", i)'
              => /\ objs'[i] = objs[i]
                 /\ microtasks' = Tail(microtasks)
                 /\ last'.outcome = "return"
                      => /\ Len(written') = 1
                         /\ EndsWithNewline(written'[1])
                         /\ written'[1] # LineClear
                         /\ ~Truthy(last'.arg) => MessageOf(written'[1]) = objs[i].text]_vars

\* a status call without argument on an instance that was not running has
\* written its one line, which shows the display text
C33_LineWhenIdle ==
    /\ last.op = "statusLine"
    /\ last.arg = Undefined
    /\ ~last.wasRunning
    /\ ~objs[last.id].isRunning
    /\ objs[last.id].text = "done"
    /\ Len(written) = 1
    /\ MessageOf(written[1]) = "done"

(***************************************************************************)
(* Properties of the animation.                                            *)
(***************************************************************************)
\* the spinner is running, shows, and has a k-th glyph
Animating(i, k) ==
    /\ Running(i)
    /\ IsSpinner(i)
    /\ objs[i].options.show
    /\ Len(objs[i].options.spinner) >= k

\* a timer tick has written the frame of the k-th glyph
GlyphShown(i, k) ==
    /\ Called("tick", i)
    /\ Len(written) = 1
    /\ GlyphOf(written[1], objs[i].text) = objs[i].options.spinner[k]

\* C34: while a Spinner with show=true and a non-empty frame sequence stays
\* running, frames keep being written and every glyph of the sequence is
\* displayed again and again; and a timer tick fires only on an instance
\* whose timer was not cleared by a stop-family call.
C34_Animation ==
    /\ \A i \in Ids : \A k \in 1..10 :
          Animating(i, k) ~> (~Animating(i, k) \/ GlyphShown(i, k))
    /\ [][\A i \in Ids : Called("tick", i)' => (objs[i].isRunning /\ timers[i] # {})]_vars

\* a spinner that shows is running and no timer is registered for it
C34_RunningWithoutTimer ==
    /\ Idle
    /\ \E i \in Ids : Animating(i, 1) /\ timers[i] = {}


\* the 24-bit prefix of the function called
PrefixOf(op) == IF op = "getColorCode" THEN "ESC[38;2;" ELSE "ESC[48;2;"

\* what the hex branch gives: the bytes of a well-formed color, else ''
HexOutcome(op, color) ==
    IF IsHexColor(color)
    THEN TrueColor(PrefixOf(op), ByteAt(color, 2), ByteAt(color, 4), ByteAt(color, 6))
    ELSE <<>>

\* what the RGB branch gives: the saturated first three components when they
\* parse to numbers, else ''
RGBOutcome(op, color) ==
    IF ParsesToNumbers(color)
    THEN TrueColor(PrefixOf(op), Saturated(ComponentOf(color, 1)),
                   Saturated(ComponentOf(color, 2)), Saturated(ComponentOf(color, 3)))
    ELSE <<>>

\* what the name branch can give: a member of the table of the function, or
\* its fallback (the cyan entry, the empty string)
NameOutcomes(op) ==
    IF op = "getColorCode"
    THEN { NAMED_COLORS[i].code : i \in 1..Len(NAMED_COLORS) } \cup { InheritedMember }
    ELSE { NAMED_BACKGROUND_COLORS[i].code : i \in 1..Len(NAMED_BACKGROUND_COLORS) }
         \cup { InheritedMember, <<>> }

\* C35: a string with a leading # is treated as hex even when it has commas;
\* otherwise a string with a comma anywhere is treated as RGB whatever else
\* it holds; only a string with neither is looked up as a name; and the
\* branch depends on the string alone, the same for both functions.
C35_Dispatch ==
    last.op \in {"getColorCode", "getBackgroundColorCode"}
      => /\ StartsWith(last.arg.s, "#") => last.result = HexOutcome(last.op, last.arg.s)
         /\ (~StartsWith(last.arg.s, "#") /\ Includes(last.arg.s, ","))
              => last.result = RGBOutcome(last.op, last.arg.s)
         /\ (~StartsWith(last.arg.s, "#") /\ ~Includes(last.arg.s, ","))
              => last.result \in NameOutcomes(last.op)

\* getColorCode('red,blue') took the RGB branch: the empty string, neither the
\* red entry nor the cyan fallback
C35_NameWithComma ==
    /\ last.op = "getColorCode"
    /\ last.arg.s = <<"r", "e", "d", ",", "b", "l", "u", "e">>
    /\ last.result = <<>>


\* the comma-separated components of the color are exactly three, none empty
IsTriple(color) ==
    /\ Len(Split(color, ",")) = 3
    /\ \A k \in 1..3 : Split(color, ",")[k] # <<>>

\* C36: an RGB color string is accepted only as a triple: a string with a
\* comma (and no leading #) that has fewer than three components, more than
\* three components or an empty component gives the empty string from both
\* getColorCode and getBackgroundColorCode.
C36_TripleOnly ==
    (last.op \in {"getColorCode", "getBackgroundColorCode"}
       /\ IsRGBColor(last.arg.s) /\ ~IsTriple(last.arg.s))
      => last.result = <<>>

\* getColorCode('1,2,3,4') has returned ESC[38;2;1;2;3m: the fourth component
\* was ignored
C36_FourComponents ==
    /\ last.op = "getColorCode"
    /\ last.arg.s = <<"1", ",", "2", ",", "3", ",", "4">>
    /\ last.result = <<"ESC[38;2;", "1", ";", "2", ";", "3", "m">>

\* getBackgroundColorCode('128,,255') has returned ESC[48;2;128;0;255m: the
\* empty component was taken as 0
C36_EmptyComponent ==
    /\ last.op = "getBackgroundColorCode"
    /\ last.arg.s = <<"1", "2", "8", ",", ",", "2", "5", "5">>
    /\ last.result = <<"ESC[48;2;", "1", "2", "8", ";", "0", ";", "2", "5", "5", "m">>


\* C37: constructing a Progress never modifies the options object passed by
\* the caller: after new Progress(options), also when current is out of
\* range and clamped for the instance, every field of the caller's object has
\* the value it had before the call.
C37_OptionsUntouched ==
    last.op = "new Progress" => last.options = last.arg

\* new Progress({total: 2, current: MaxNum}) has returned: the instance holds
\* current = 2, and so does the caller's object
C37_CallerCurrentClamped ==
    /\ last.op = "new Progress"
    /\ last.outcome = "return"
    /\ last.arg.total = Num(2)
    /\ last.arg.current = Num(MaxNum)
    /\ objs[last.id].current = Num(2)
    /\ last.options.current = Num(2)


\* the field as the claim has it: its default when omitted, else as given
Given(field, default) == IF field = Undefined THEN default ELSE field

\* the fields that the two components share, merged over the defaults
MergedAsGiven(options, given) ==
    /\ options.text = Given(given.text, Str("")).s
    /\ options.color = Given(given.color, Str(<<"c", "y", "a", "n">>)).s
    /\ options.backgroundColor = Given(given.backgroundColor, Str(<<>>)).s
    /\ options.show = Given(given.show, Bool(TRUE)).b
    /\ options.bold = Given(given.bold, Bool(FALSE)).b
    /\ options.italic = Given(given.italic, Bool(FALSE)).b
    /\ options.underline = Given(given.underline, Bool(FALSE)).b

\* C38: construction merges the supplied options over the defaults field by
\* field: an omitted field takes its default (text empty, color cyan,
\* backgroundColor unset, show true, bold/italic/underline false, the 10
\* braille glyphs for a spinner, bar for a progress style) and a supplied
\* field, a falsy one such as show = false or an empty frame array as well,
\* is kept as given (total as given, and current as validation hands it to
\* the merge); the instance starts with running = false and no timer.
C38_Merge ==
    /\ last.op = "new Spinner"
         => /\ MergedAsGiven(objs[last.id].options, last.arg)
            /\ objs[last.id].options.spinner
                 = Given(last.arg.spinner,
                         Arr(<<"f0", "f1", "f2", "f3", "f4", "f5", "f6", "f7", "f8", "f9">>)).a
            /\ objs[last.id].text = objs[last.id].options.text
            /\ ~objs[last.id].isRunning
            /\ objs[last.id].intervalId = NullTimer
            /\ timers[last.id] = {}
    /\ (last.op = "new Progress" /\ last.outcome = "return")
         => /\ MergedAsGiven(objs[last.id].options, last.arg)
            /\ objs[last.id].options.style = Given(last.arg.style, Str("bar")).s
            /\ objs[last.id].total = last.arg.total
            /\ objs[last.id].current = Given(last.options.current, Num(0))
            /\ objs[last.id].text = objs[last.id].options.text
            /\ ~objs[last.id].isRunning
            /\ objs[last.id].intervalId = NullTimer
            /\ timers[last.id] = {}

\* new Spinner({show: false, spinner: [...]}) has returned an instance that
\* keeps show = false and the frames given, takes every other field from the
\* defaults, and is not running
C38_FalsyKept ==
    /\ last.op = "new Spinner"
    /\ last.arg.show = Bool(FALSE)
    /\ last.arg.text = Undefined
    /\ objs[last.id].options.show = FALSE
    /\ objs[last.id].options.spinner = <<"-", "+">>
    /\ objs[last.id].options.text = ""
    /\ objs[last.id].options.color = Cyan
    /\ ~objs[last.id].isRunning
    /\ timers[last.id] = {}


\* C39: for every constructed Progress, the stored style is one of bar,
\* blocks, dots in every reachable state (construction with any other style
\* throws and no operation assigns the style), so the default branch of the
\* switch of render is never taken.
C39_KnownStyle ==
    \A i \in Ids : IsProgress(i) => objs[i].options.style \in {"bar", "blocks", "dots"}

\* a Progress constructed with the style dots has rendered a frame on a
\* timer tick, its style still dots
C39_DotsRendered ==
    /\ Called("tick", last.id)
    /\ IsProgress(last.id)
    /\ objs[last.id].options.style = "dots"
    /\ Len(written) = 1


StandardNames ==
    { <<"b", "l", "a", "c", "k">>,
      <<"r", "e", "d">>,
      <<"g", "r", "e", "e", "n">>,
      <<"y", "e", "l", "l", "o", "w">>,
      <<"b", "l", "u", "e">>,
      <<"m", "a", "g", "e", "n", "t", "a">>,
      <<"c", "y", "a", "n">>,
      <<"w", "h", "i", "t", "e">>,
      <<"g", "r", "a", "y">> }

BrightNames ==
    { <<"b", "r", "i", "g", "h", "t", "B", "l", "a", "c", "k">>,
      <<"b", "r", "i", "g", "h", "t", "R", "e", "d">>,
      <<"b", "r", "i", "g", "h", "t", "G", "r", "e", "e", "n">>,
      <<"b", "r", "i", "g", "h", "t", "Y", "e", "l", "l", "o", "w">>,
      <<"b", "r", "i", "g", "h", "t", "B", "l", "u", "e">>,
      <<"b", "r", "i", "g", "h", "t", "M", "a", "g", "e", "n", "t", "a">>,
      <<"b", "r", "i", "g", "h", "t", "C", "y", "a", "n">>,
      <<"b", "r", "i", "g", "h", "t", "W", "h", "i", "t", "e">> }

ExtendedNames ==
    { <<"o", "r", "a", "n", "g", "e">>,
      <<"p", "u", "r", "p", "l", "e">>,
      <<"p", "i", "n", "k">>,
      <<"t", "e", "a", "l">>,
      <<"i", "n", "d", "i", "g", "o">>,
      <<"l", "i", "m", "e">>,
      <<"b", "r", "o", "w", "n">>,
      <<"g", "o", "l", "d">> }

\* the names a table defines
NamesOf(table) == { table[i].name : i \in 1..Len(table) }

\* the result of getColorCode is a member found under the name, not the cyan
\* entry returned for a name that is not found
FoundForeground(color, result) == result # <<"ESC[36m">> \/ color = <<"c", "y", "a", "n">>

\* C40: the foreground and the background table define exactly the same 25
\* names, 9 standard, 8 bright and 8 extended, each once; and for every
\* string looked up as a name, getColorCode returns what it found under the
\* name (not its fallback) if and only if getBackgroundColorCode returns a
\* non-empty result.
C40_SameNames ==
    /\ NamesOf(NAMED_COLORS) = StandardNames \cup BrightNames \cup ExtendedNames
    /\ NamesOf(NAMED_BACKGROUND_COLORS) = NamesOf(NAMED_COLORS)
    /\ Cardinality(StandardNames) = 9
    /\ Cardinality(BrightNames) = 8
    /\ Cardinality(ExtendedNames) = 8
    /\ Cardinality(NamesOf(NAMED_COLORS)) = 25
    /\ Len(NAMED_COLORS) = 25
    /\ Len(NAMED_BACKGROUND_COLORS) = 25
    /\ (~StartsWith(last.arg.s, "#") /\ ~Includes(last.arg.s, ","))
         => /\ last.op = "getColorCode"
                 => (FoundForeground(last.arg.s, last.result)
                       <=> getBackgroundColorCode(last.arg.s) # <<>>)
            /\ last.op = "getBackgroundColorCode"
                 => (last.result # <<>>
                       <=> FoundForeground(last.arg.s, getColorCode(last.arg.s)))

\* getBackgroundColorCode('brightYellow'), the last name of the tables, has
\* returned its background entry
C40_LastName ==
    /\ last.op = "getBackgroundColorCode"
    /\ last.arg.s = NAMED_COLORS[25].name
    /\ last.arg.s \in BrightNames
    /\ last.result = <<"ESC[103m">>

====
